---- MODULE Spec2Model ----
(***************************************************************************)
(* A model of BrowserControl's core: the browser pool                      *)
(* (core/browser_pool.py), the tab manager (core/tab_manager.py), the      *)
(* element finder (core/element_finder.py), the dynamic agent              *)
(* (core/planner.py) and the single-task runner                            *)
(* (tools/automation_tools.py).                                            *)
(*                                                                         *)
(* Each subsystem has its own variables, initial predicate and next-state  *)
(* relation; a specification of one subsystem leaves the variables of the  *)
(* others at their initial values.                                         *)
(***************************************************************************)
EXTENDS Integers, Sequences, FiniteSets, TLC

(***************************************************************************)
(* Bounds of the model.                                                    *)
(***************************************************************************)
\* number of concurrent tasks calling the pool
NumCallers == 2
\* largest max_browsers a pool is constructed with
MaxPoolSize == 2
\* cap on _instance_counter (browser instances ever created by one pool)
MaxCreated == 2
\* the timeout argument of get_browser_instance, in sleep intervals (0.5 s)
AcquireTimeout == 0

\* cap on TabManager._tab_counter (pages ever registered by one tab manager)
MaxTabs == 4

\* largest max_steps an agent is constructed with
MaxSteps == 2
\* largest settings.MAX_CORRECTION_ATTEMPTS
MaxRetries == 2
\* largest number of steps of a parallel task
MaxTaskSteps == 2
\* largest number of interactive elements on a page
MaxElements == 2
\* longest text the element-matching LLM answers with
MaxResponseLen == 2
\* largest number of run_dynamic calls made on one agent object
MaxRuns == 2
\* largest number of screenshot steps of a run
MaxScreenshots == 2
\* largest retry_count of a submitted task
MaxAttempts == 3

Callers == 1..NumCallers
Ids == 1..MaxCreated

VARIABLES
    \* ---- BrowserPool (core/browser_pool.py) ----
    max_browsers,      \* BrowserPool.max_browsers
    initialized,       \* BrowserPool._initialized
    playwright,        \* BrowserPool.playwright: "none" (None), "running", "stopped"
    instances,         \* BrowserPool.instances: sequence of instance ids
    instance_counter,  \* BrowserPool._instance_counter
    lock,              \* BrowserPool.lock: 0 when free, else the caller holding it
    in_use,            \* BrowserInstance.in_use, by instance id
    task_id,           \* BrowserInstance.task_id, by instance id (0 is None)
    error_count,       \* BrowserInstance.error_count, by instance id
    connected,         \* browser.is_connected(), by instance id
    closed,            \* the instances BrowserInstance.close() was called on
    pc,                \* where each caller is in get_/release_browser_instance
    held,              \* the instance each caller got and has not released (0: none)
    elapsed,           \* sleeps since the caller's start_time
    streak,            \* history: consecutive had_error releases of a pooled instance
    struck_out,        \* history: the instances released with had_error three times in a row
    cleanup_pc,        \* where BrowserPool.cleanup() is
    close_pending,     \* the close tasks of cleanup()'s gather that have not ended
    \* ---- TabManager (core/tab_manager.py) ----
    tabs,              \* TabManager.tabs: the keys of the dict, in insertion order
    active_tab_index,  \* TabManager.active_tab_index
    tab_counter,       \* TabManager._tab_counter
    page_open,         \* the registered pages (by tab index) the browser has not closed
    tab_result,        \* "success" of the dict the last TabManager call returned
    \* ---- DynamicAutomationAgent (core/planner.py) ----
    max_steps,               \* self.max_steps
    enable_self_correction,  \* self.enable_self_correction
    max_retries,             \* max_retries of _execute_with_correction
    action_history,          \* self.action_history
    agent_pc,                \* where run_dynamic is
    pool,                    \* run_dynamic's pool is not None
    browser_instance,        \* run_dynamic's browser_instance is not None
    session_in_use,          \* in_use of the session run_dynamic acquired
    task_context,            \* run_dynamic's task_context is not None
    extracted_data,          \* number of entries of task_context.extracted_data
    final_answer,            \* task_context.final_answer is set
    step_count,              \* run_dynamic's step_count
    goal_achieved,           \* run_dynamic's goal_achieved
    attempt,                 \* attempt of _execute_with_correction
    executions,              \* history: execute_intelligent_step calls of this step
    corrections,             \* history: corrected actions received in this step
    only_actions,            \* history: every decision so far was a non-terminal action
    summary,                 \* the verdict run_dynamic prints before returning
    result,                  \* the dict run_dynamic returned
    release_calls,           \* history: release_browser_instance calls of the run
    cleanup_calls,           \* history: pool.cleanup() calls of the run
    agent_had_error,         \* had_error of the run's release call
    last_decision,           \* history: what the latest decision was
    decisions_made,          \* history: _decide_next_action calls of the run
    runs,                    \* history: run_dynamic calls made on the agent object
    history_at_start,        \* history: len(self.action_history) when the run began
    \* ---- _execute_single_task (tools/automation_tools.py) ----
    task_steps,              \* len(task.steps)
    task_pc,                 \* where _execute_single_task is
    task_browser_instance,   \* its browser_instance is not None
    task_in_use,             \* in_use of the session the task acquired
    step_results,            \* 'success' of each entry of step_results
    task_result,             \* how _execute_single_task ended
    task_cancelled,          \* asyncio.wait_for has cancelled the task
    task_release_calls,      \* history: release_browser_instance calls of the task
    task_had_error,          \* had_error of the task's release call
    \* ---- IntelligentElementFinder (core/element_finder.py) ----
    page_elements,           \* the interactive elements of the page, in page order
    description_top,         \* 'top' occurs in the description
    vision_enabled,          \* settings.ENABLE_VISION_FALLBACK and self.vision_llm
    finder_pc,               \* where find_element_intelligently is
    all_elements,            \* all_elements of find_element_intelligently
    finder_result,           \* the dict find_element_intelligently returned
    tiers_run,               \* history: the strategies attempted, in order
    structural_valid,        \* history: the LLM selected a valid candidate
    vision_succeeded,        \* history: the vision tier selected an element
    scored_all,              \* history: elements scored by the final rule-based tier
    \* ---- IntelligentParallelExecutor (core/executor.py) ----
    step_action,             \* step['action'] of the step being executed
    max_attempts,            \* max_attempts of _intelligent_click/_intelligent_type
    exec_attempt,            \* attempt of their for loop
    description,             \* the description searched for: the step's or a corrected one
    exec_pc,                 \* where the handler of the step is
    find_failed,             \* history: the latest find_element_intelligently failed
    exec_result,             \* how the handler ended, and the description it names
    \* ---- IntelligentElementFinder._find_with_vision ----
    vision_llm,              \* self.vision_llm is not None
    markable,                \* the visible interactive elements of the page's viewport
    vision_pc,               \* where _find_with_vision is
    element_map,             \* len(element_map): the elements marked, keyed 0..len-1
    element_id,              \* extract_number(response_text)
    markers_on_page,         \* the .som-marker nodes in the page
    marked,                  \* history: the markers this call appended
    removal_runs,            \* history: executions of _remove_visual_markers
    removal_ok,              \* history: the latest of them did not raise
    vision_result,           \* what _find_with_vision returned
    \* ---- TaskContext (core/task_context.py) ----
    context_pc,              \* "run" while a run uses the TaskContext
    context_extracted_data,  \* TaskContext.extracted_data: key to value
    visited_urls,            \* TaskContext.visited_urls
    screenshots,             \* TaskContext.screenshots
    \* ---- retry_async (utils/retry.py) in _execute_single_task's step loop ----
    retry,                   \* the task, the step loop's and retry_async's locals
    \* ---- TaskValidator.validate_step and the executor's dispatch ----
    validation,              \* a step and what the validator and the executor did with it
    \* ---- the page reference of run_dynamic's loop ----
    loop                     \* page, step_count, next_action and the action executed

poolVars == <<max_browsers, initialized, playwright, instances, instance_counter,
              lock, in_use, task_id, error_count, connected, closed, pc, held,
              elapsed, streak, struck_out>>

tabVars == <<tabs, active_tab_index, tab_counter, page_open, tab_result>>

agentVars == <<max_steps, enable_self_correction, max_retries, action_history,
               agent_pc, pool, browser_instance, session_in_use, task_context,
               extracted_data, final_answer, step_count, goal_achieved, attempt,
               executions, corrections, only_actions, summary, result,
               release_calls, cleanup_calls, agent_had_error, last_decision,
               decisions_made, runs, history_at_start>>

taskVars == <<task_steps, task_pc, task_browser_instance, task_in_use,
              step_results, task_result, task_cancelled, task_release_calls,
              task_had_error>>

finderVars == <<page_elements, description_top, vision_enabled, finder_pc,
                all_elements, finder_result, tiers_run, structural_valid,
                vision_succeeded, scored_all>>

shutdownVars == <<cleanup_pc, close_pending>>

execVars == <<step_action, max_attempts, exec_attempt, description, exec_pc,
              find_failed, exec_result>>

visionVars == <<vision_llm, markable, vision_pc, element_map, element_id,
                markers_on_page, marked, removal_runs, removal_ok,
                vision_result>>

contextVars == <<context_pc, context_extracted_data, visited_urls, screenshots>>

retryVars == <<retry>>

validationVars == <<validation>>

loopVars == <<loop>>

vars == <<poolVars, shutdownVars, tabVars, agentVars, taskVars, finderVars,
          execVars, visionVars, contextVars, retryVars, validationVars, loopVars>>

nonPoolVars ==
    <<shutdownVars, tabVars, agentVars, taskVars, finderVars, execVars,
      visionVars, contextVars, retryVars, validationVars, loopVars>>
nonTabVars ==
    <<poolVars, shutdownVars, agentVars, taskVars, finderVars, execVars,
      visionVars, contextVars, retryVars, validationVars>>
nonAgentVars ==
    <<poolVars, shutdownVars, tabVars, taskVars, finderVars, execVars,
      visionVars, contextVars, retryVars, validationVars, loopVars>>
nonTaskVars ==
    <<poolVars, shutdownVars, tabVars, agentVars, finderVars, execVars,
      visionVars, contextVars, retryVars, validationVars, loopVars>>
nonFinderVars ==
    <<poolVars, shutdownVars, tabVars, agentVars, taskVars, execVars,
      visionVars, contextVars, retryVars, validationVars, loopVars>>
nonExecVars ==
    <<poolVars, shutdownVars, tabVars, agentVars, taskVars, finderVars,
      visionVars, contextVars, retryVars, validationVars, loopVars>>
nonVisionVars ==
    <<poolVars, shutdownVars, tabVars, agentVars, taskVars, finderVars,
      execVars, contextVars, retryVars, validationVars, loopVars>>
nonContextVars ==
    <<poolVars, shutdownVars, tabVars, agentVars, taskVars, finderVars,
      execVars, visionVars, retryVars, validationVars, loopVars>>
nonShutdownVars ==
    <<tabVars, agentVars, taskVars, finderVars, execVars,
      visionVars, contextVars, retryVars, validationVars, loopVars>>
nonRetryVars ==
    <<poolVars, shutdownVars, tabVars, agentVars, taskVars, finderVars,
      execVars, visionVars, contextVars, validationVars, loopVars>>
nonValidationVars ==
    <<poolVars, shutdownVars, tabVars, agentVars, taskVars, finderVars,
      execVars, visionVars, contextVars, retryVars, loopVars>>
\* the loop moves together with the TabManager
nonLoopVars ==
    <<poolVars, shutdownVars, agentVars, taskVars, finderVars,
      execVars, visionVars, contextVars, retryVars, validationVars>>

(***************************************************************************)
(* Sequence helpers.                                                       *)
(***************************************************************************)
Range(s) == {s[k] : k \in 1..Len(s)}

\* list.remove(x): drops the first occurrence of x
RECURSIVE Remove(_, _)
Remove(s, x) ==
    IF s = <<>> THEN <<>>
    ELSE IF Head(s) = x THEN Tail(s)
    ELSE <<Head(s)>> \o Remove(Tail(s), x)

\* [e for e in s if e not in drop]
RECURSIVE Without(_, _)
Without(s, drop) ==
    IF s = <<>> THEN <<>>
    ELSE IF Head(s) \in drop THEN Without(Tail(s), drop)
    ELSE <<Head(s)>> \o Without(Tail(s), drop)

(***************************************************************************)
(* BrowserPool                                                             *)
(***************************************************************************)
PoolInit ==
    /\ max_browsers \in 1..MaxPoolSize
    /\ initialized = FALSE
    /\ playwright = "none"
    /\ instances = <<>>
    /\ instance_counter = 0
    /\ lock = 0
    /\ in_use = [i \in Ids |-> FALSE]
    /\ task_id = [i \in Ids |-> 0]
    /\ error_count = [i \in Ids |-> 0]
    /\ connected = [i \in Ids |-> FALSE]
    /\ closed = {}
    /\ pc = [c \in Callers |-> "idle"]
    /\ held = [c \in Callers |-> 0]
    /\ elapsed = [c \in Callers |-> 0]
    /\ streak = [i \in Ids |-> 0]
    /\ struck_out = {}

\* BrowserInstance.is_healthy
ErrorsBelowLimit(i) == error_count[i] < 3
is_healthy(i) == error_count[i] < 3 /\ connected[i]

\* the reuse test of the scan: not instance.in_use and instance.is_healthy
AvailableIgnoringInUse(i) == is_healthy(i)
Available(i) == ~in_use[i] /\ is_healthy(i)

\* the capacity test before a creation: len(self.instances) < self.max_browsers
UnderLimitInclusive == Len(instances) <= max_browsers
UnderLimit == Len(instances) < max_browsers

\* the timeout test at the top of the wait loop: now - start_time > timeout
TimedOutInclusive(c) == elapsed[c] >= AcquireTimeout
TimedOut(c) == elapsed[c] > AcquireTimeout

\* the eviction test of release: instance.error_count >= 3
ShouldEvictOffByOne(cnt) == cnt > 3
ShouldEvict(cnt) == cnt >= 3

\* the first instance of the list the scan accepts (0: none)
FirstAvailable ==
    LET ks == {k \in 1..Len(instances) : Available(instances[k])}
    IN  IF ks = {} THEN 0
        ELSE instances[CHOOSE k \in ks : \A j \in ks : k <= j]

\* initialize(): starts playwright (with retries); a failure raises
\* BrowserInitializationError and leaves the pool uninitialized
initialize(ok) ==
    /\ IF initialized \/ ~ok
       THEN UNCHANGED <<initialized, playwright>>
       ELSE initialized' = TRUE /\ playwright' = "running"
    /\ UNCHANGED <<max_browsers, instances, instance_counter, lock, in_use,
                   task_id, error_count, connected, closed, pc, held, elapsed,
                   streak, struck_out>>
    /\ UNCHANGED nonPoolVars

\* get_browser_instance, entry: an uninitialized pool raises BrowserPoolError
\* (the call ends, nothing changes); else start_time is taken
GetStart(c) ==
    /\ pc[c] = "idle"
    /\ IF ~initialized
       THEN UNCHANGED <<pc, elapsed>>
       ELSE /\ pc' = [pc EXCEPT ![c] = "loop"]
            /\ elapsed' = [elapsed EXCEPT ![c] = 0]
    /\ UNCHANGED <<max_browsers, initialized, playwright, instances,
                   instance_counter, lock, in_use, task_id, error_count,
                   connected, closed, held, streak, struck_out>>
    /\ UNCHANGED nonPoolVars

\* get_browser_instance, top of the while loop with the timeout elapsed:
\* raises BrowserInstanceUnavailableError, which ends the call
RaiseUnavailable(c) ==
    /\ pc[c] = "loop"
    /\ TimedOut(c)
    /\ pc' = [pc EXCEPT ![c] = "idle"]
    /\ elapsed' = [elapsed EXCEPT ![c] = 0]
    /\ UNCHANGED <<max_browsers, initialized, playwright, instances,
                   instance_counter, lock, in_use, task_id, error_count,
                   connected, closed, held, streak, struck_out>>
    /\ UNCHANGED nonPoolVars

\* get_browser_instance, top of the while loop within the timeout: enters the
\* lock and runs _cleanup_unhealthy_instances, which removes and closes the
\* idle unhealthy instances
EnterAndCleanup(c) ==
    /\ pc[c] = "loop"
    /\ ~TimedOut(c)
    /\ lock = 0
    /\ lock' = c
    /\ LET unhealthy == {i \in Range(instances) : ~is_healthy(i) /\ ~in_use[i]}
       IN  /\ instances' = Without(instances, unhealthy)
           /\ closed' = closed \cup unhealthy
           /\ connected' = [i \in Ids |-> connected[i] /\ i \notin unhealthy]
           /\ streak' = [i \in Ids |-> IF i \in unhealthy THEN 0 ELSE streak[i]]
    /\ pc' = [pc EXCEPT ![c] = "scan"]
    /\ UNCHANGED <<max_browsers, initialized, playwright, instance_counter,
                   in_use, task_id, error_count, held, elapsed, struck_out>>
    /\ UNCHANGED nonPoolVars

\* the lock when a caller leaves `async with self.lock` for the sleep
LockKeptOverSleep(c) == c
LockOnLeave(c) == 0

\* get_browser_instance, under the lock: reuse the first available instance,
\* else start a creation when under the limit, else leave the lock and sleep
Scan(c) ==
    /\ pc[c] = "scan"
    /\ IF FirstAvailable # 0
       THEN /\ in_use' = [in_use EXCEPT ![FirstAvailable] = TRUE]
            /\ task_id' = [task_id EXCEPT ![FirstAvailable] = c]
            /\ held' = [held EXCEPT ![c] = FirstAvailable]
            /\ lock' = 0
            /\ pc' = [pc EXCEPT ![c] = "holding"]
            /\ elapsed' = [elapsed EXCEPT ![c] = 0]
            /\ UNCHANGED instance_counter
       ELSE IF UnderLimit
       THEN IF playwright = "none"
            THEN \* _create_browser_instance raises at once; caught, wait loop
                 /\ lock' = LockOnLeave(c)
                 /\ pc' = [pc EXCEPT ![c] = "sleep"]
                 /\ UNCHANGED <<in_use, task_id, held, elapsed,
                                instance_counter>>
            ELSE /\ instance_counter < MaxCreated
                 /\ instance_counter' = instance_counter + 1
                 /\ pc' = [pc EXCEPT ![c] = "creating"]
                 /\ UNCHANGED <<in_use, task_id, held, elapsed, lock>>
       ELSE /\ lock' = LockOnLeave(c)
            /\ pc' = [pc EXCEPT ![c] = "sleep"]
            /\ UNCHANGED <<in_use, task_id, held, elapsed,
                           instance_counter>>
    /\ UNCHANGED <<max_browsers, initialized, playwright, instances,
                   error_count, connected, closed, streak, struck_out>>
    /\ UNCHANGED nonPoolVars

\* _create_browser_instance after its awaits (launch with retries, new_context,
\* new_page): on success the instance joins the list in use; on failure
\* BrowserInitializationError is caught by get_browser_instance, which goes on
\* to the wait loop; a playwright that has been stopped launches nothing
CreateDone(c, ok) ==
    /\ pc[c] = "creating"
    /\ ok => playwright = "running"
    /\ lock' = (IF ok THEN 0 ELSE LockOnLeave(c))
    /\ IF ok
       THEN /\ instances' = Append(instances, instance_counter)
            /\ in_use' = [in_use EXCEPT ![instance_counter] = TRUE]
            /\ task_id' = [task_id EXCEPT ![instance_counter] = c]
            /\ connected' = [connected EXCEPT ![instance_counter] = TRUE]
            /\ held' = [held EXCEPT ![c] = instance_counter]
            /\ pc' = [pc EXCEPT ![c] = "holding"]
            /\ elapsed' = [elapsed EXCEPT ![c] = 0]
       ELSE /\ pc' = [pc EXCEPT ![c] = "sleep"]
            /\ UNCHANGED <<instances, in_use, task_id, connected, held, elapsed>>
    /\ UNCHANGED <<max_browsers, initialized, playwright, instance_counter,
                   error_count, closed, streak, struck_out>>
    /\ UNCHANGED nonPoolVars

\* the time since start_time after one more asyncio.sleep(0.5)
AfterSleepSameTime(e) == e
AfterSleep(e) == e + 1

\* await asyncio.sleep(0.5) at the bottom of the wait loop
Sleep(c) ==
    /\ pc[c] = "sleep"
    /\ elapsed' = [elapsed EXCEPT ![c] = AfterSleep(elapsed[c])]
    /\ pc' = [pc EXCEPT ![c] = "loop"]
    /\ UNCHANGED <<max_browsers, initialized, playwright, instances,
                   instance_counter, lock, in_use, task_id, error_count,
                   connected, closed, held, streak, struck_out>>
    /\ UNCHANGED nonPoolVars

\* instance.error_count after the first statement of release: had_error adds
\* one, nothing else touches the count
CountAfterReleaseReset(i, had_error) ==
    IF had_error THEN error_count[i] + 1 ELSE 0
CountAfterRelease(i, had_error) ==
    IF had_error THEN error_count[i] + 1 ELSE error_count[i]

\* release_browser_instance(instance, had_error), the whole body under the lock
release_browser_instance(c, had_error) ==
    /\ pc[c] = "holding"
    /\ lock = 0
    /\ LET i == held[c]
           cnt == CountAfterRelease(i, had_error)
       IN  /\ error_count' = [error_count EXCEPT ![i] = cnt]
           /\ in_use' = [in_use EXCEPT ![i] = FALSE]
           /\ task_id' = [task_id EXCEPT ![i] = 0]
           /\ struck_out' = IF had_error /\ streak[i] + 1 >= 3
                             THEN struck_out \cup {i} ELSE struck_out
           /\ IF ShouldEvict(cnt) /\ i \in Range(instances)
              THEN /\ instances' = Remove(instances, i)
                   /\ closed' = closed \cup {i}
                   /\ connected' = [connected EXCEPT ![i] = FALSE]
                   /\ streak' = [streak EXCEPT ![i] = 0]
              ELSE IF ShouldEvict(cnt)
              THEN \* self.instances.remove raises ValueError: close is not
                   \* reached, the lock is left, the error reaches the caller
                   /\ streak' = [streak EXCEPT ![i] = 0]
                   /\ UNCHANGED <<instances, closed, connected>>
              ELSE /\ streak' = [streak EXCEPT ![i] =
                                    IF had_error THEN streak[i] + 1 ELSE 0]
                   /\ UNCHANGED <<instances, closed, connected>>
    /\ held' = [held EXCEPT ![c] = 0]
    /\ pc' = [pc EXCEPT ![c] = "idle"]
    /\ UNCHANGED <<max_browsers, initialized, playwright, instance_counter,
                   lock, elapsed>>
    /\ UNCHANGED nonPoolVars

\* the environment: the browser of a pooled instance dies or loses its
\* connection (a closed browser reports disconnected as well)
Disconnect(i) ==
    /\ i \in Range(instances)
    /\ connected[i]
    /\ connected' = [connected EXCEPT ![i] = FALSE]
    /\ UNCHANGED <<max_browsers, initialized, playwright, instances,
                   instance_counter, lock, in_use, task_id, error_count,
                   closed, pc, held, elapsed, streak, struck_out>>
    /\ UNCHANGED nonPoolVars

PoolNext ==
    \/ \E ok \in BOOLEAN : initialize(ok)
    \/ \E c \in Callers : GetStart(c)
    \/ \E c \in Callers : RaiseUnavailable(c)
    \/ \E c \in Callers : EnterAndCleanup(c)
    \/ \E c \in Callers : Scan(c)
    \/ \E c \in Callers, ok \in BOOLEAN : CreateDone(c, ok)
    \/ \E c \in Callers : Sleep(c)
    \/ \E c \in Callers, had_error \in BOOLEAN : release_browser_instance(c, had_error)
    \/ \E i \in Ids : Disconnect(i)

\* the instances cleanup() builds a close task for: every one in the list
CleanupTargetsIdle == {i \in Range(instances) : ~in_use[i]}
CleanupTargets == Range(instances)

\* how an awaited close or stop can end
Outcomes == {"ok", "timeout", "error"}

\* the except clauses around playwright.stop(): asyncio.TimeoutError, Exception
StopCaughtTimeoutOnly(outcome) == outcome \in {"ok", "timeout"}
StopCaught(outcome) == outcome \in Outcomes

\* cleanup(), up to its first await: one instance.close(timeout=5.0) task per
\* instance of the list, handed to gather
cleanup_start ==
    /\ cleanup_pc \in {"idle", "returned"}
    /\ cleanup_pc' = "closing"
    /\ close_pending' = CleanupTargets
    /\ UNCHANGED poolVars
    /\ UNCHANGED nonShutdownVars

\* BrowserInstance.close of one of the gathered tasks: context.close() and
\* browser.close() under wait_for; a timeout or an error of either is caught
\* and logged, and leaves the browser as it was
cleanup_close(i, outcome) ==
    /\ cleanup_pc = "closing"
    /\ i \in close_pending
    /\ close_pending' = close_pending \ {i}
    /\ IF outcome = "ok"
       THEN /\ closed' = closed \cup {i}
            /\ connected' = [connected EXCEPT ![i] = FALSE]
       ELSE UNCHANGED <<closed, connected>>
    /\ UNCHANGED <<max_browsers, initialized, playwright, instances,
                   instance_counter, lock, in_use, task_id, error_count, pc,
                   held, elapsed, streak, struck_out, cleanup_pc>>
    /\ UNCHANGED nonShutdownVars

\* the wait_for around gather ends: every task has ended, or the timeout
\* cancels the ones left (asyncio.TimeoutError is caught and logged)
cleanup_gathered(timed_out) ==
    /\ cleanup_pc = "closing"
    /\ IF timed_out THEN close_pending # {} ELSE close_pending = {}
    /\ close_pending' = {}
    /\ cleanup_pc' = "stopping"
    /\ UNCHANGED poolVars
    /\ UNCHANGED nonShutdownVars

\* the rest of cleanup(): playwright.stop() under wait_for when playwright is
\* set, then instances.clear() and _initialized = False; a stop that timed
\* out or raised leaves playwright running, and self.playwright is kept
cleanup_finish(outcome) ==
    /\ cleanup_pc = "stopping"
    /\ playwright = "none" => outcome = "ok"
    /\ playwright' = IF playwright = "running" /\ outcome = "ok"
                     THEN "stopped" ELSE playwright
    /\ IF StopCaught(outcome)
       THEN /\ instances' = <<>>
            /\ initialized' = FALSE
            /\ cleanup_pc' = "returned"
       ELSE /\ cleanup_pc' = "raised"
            /\ UNCHANGED <<instances, initialized>>
    /\ UNCHANGED <<max_browsers, instance_counter, lock, in_use,
                   task_id, error_count, connected, closed, pc, held, elapsed,
                   streak, struck_out, close_pending>>
    /\ UNCHANGED nonShutdownVars

ShutdownIdle == cleanup_pc = "off" /\ close_pending = {}

ShutdownInit == cleanup_pc = "idle" /\ close_pending = {}

ShutdownNext ==
    \/ cleanup_start
    \/ \E i \in Ids, outcome \in Outcomes : cleanup_close(i, outcome)
    \/ \E timed_out \in BOOLEAN : cleanup_gathered(timed_out)
    \/ \E outcome \in Outcomes : cleanup_finish(outcome)

(***************************************************************************)
(* IntelligentParallelExecutor: the actions that target an element by its  *)
(* description (core/executor.py)                                          *)
(***************************************************************************)
DescriptionActions == {"intelligent_click", "intelligent_type",
                       "intelligent_extract", "hover", "select_option"}

\* the handlers with a correction loop: _intelligent_click, _intelligent_type
Retrying(action) == action \in {"intelligent_click", "intelligent_type"}

NoExecResult == [kind |-> "none", names |-> "none", success |-> FALSE]

\* the handler returned a result string
Returned(names, ok) == [kind |-> "returned", names |-> names, success |-> ok]

\* the handler raised an exception whose message names a description
Raised(names) == [kind |-> "raised", names |-> names, success |-> FALSE]

\* no step is being executed
ExecIdle ==
    /\ step_action = "none"
    /\ max_attempts = 1
    /\ exec_attempt = 0
    /\ description = "original"
    /\ exec_pc = "idle"
    /\ find_failed = FALSE
    /\ exec_result = NoExecResult

\* execute_intelligent_step has dispatched a description-targeted step;
\* max_attempts is MAX_CORRECTION_ATTEMPTS + 1 with self-correction, else 1
ExecInit ==
    /\ step_action \in DescriptionActions
    /\ \E enabled \in BOOLEAN, corrections_allowed \in 0..MaxRetries :
          max_attempts = IF enabled THEN corrections_allowed + 1 ELSE 1
    /\ exec_attempt = 0
    /\ description = "original"
    /\ exec_pc = "finding"
    /\ find_failed = FALSE
    /\ exec_result = NoExecResult

\* what a handler without a correction loop does when the element was not
\* found: return f"Could not find ...: {description}"
Unresolved(action) == Returned("original", FALSE)

\* find_element_intelligently(page, description, context) and what follows a
\* failure: with attempts left, _ask_for_correction and the next attempt,
\* under the corrected description when one is given; on the last attempt
\* the exception naming original_description; without a correction loop the
\* handler's own answer
find_element(found, corrected) ==
    /\ exec_pc = "finding"
    /\ find_failed' = ~found
    /\ IF found
       THEN /\ exec_pc' = "acting"
            /\ UNCHANGED <<exec_attempt, description, exec_result>>
       ELSE IF Retrying(step_action)
       THEN IF exec_attempt < max_attempts - 1
            THEN /\ exec_attempt' = exec_attempt + 1
                 /\ description' = IF corrected THEN "corrected" ELSE description
                 /\ UNCHANGED <<exec_pc, exec_result>>
            ELSE /\ exec_result' = Raised("original")
                 /\ exec_pc' = "done"
                 /\ UNCHANGED <<exec_attempt, description>>
       ELSE /\ exec_result' = Unresolved(step_action)
            /\ exec_pc' = "done"
            /\ UNCHANGED <<exec_attempt, description>>
    /\ UNCHANGED <<step_action, max_attempts>>
    /\ UNCHANGED nonExecVars

\* the page operation on the element found (click, fill, text_content, hover,
\* select_option): a failure is retried by the handlers with a correction
\* loop and raised on their last attempt (_intelligent_click names the
\* description it searched for, _intelligent_type the original one); the
\* other handlers return a "Failed to ..." string
act_on_element(ok, corrected) ==
    /\ exec_pc = "acting"
    /\ IF ok
       THEN /\ exec_result' = Returned(IF step_action = "intelligent_type"
                                       THEN description ELSE "original", TRUE)
            /\ exec_pc' = "done"
            /\ UNCHANGED <<exec_attempt, description>>
       ELSE IF Retrying(step_action)
       THEN IF exec_attempt < max_attempts - 1
            THEN /\ exec_attempt' = exec_attempt + 1
                 /\ description' = IF corrected THEN "corrected" ELSE description
                 /\ exec_pc' = "finding"
                 /\ UNCHANGED exec_result
            ELSE /\ exec_result' = Raised(IF step_action = "intelligent_click"
                                          THEN description ELSE "original")
                 /\ exec_pc' = "done"
                 /\ UNCHANGED <<exec_attempt, description>>
       ELSE /\ exec_result' = Returned("original", FALSE)
            /\ exec_pc' = "done"
            /\ UNCHANGED <<exec_attempt, description>>
    /\ UNCHANGED <<step_action, max_attempts, find_failed>>
    /\ UNCHANGED nonExecVars

ExecNext ==
    \/ \E found, corrected \in BOOLEAN : find_element(found, corrected)
    \/ \E ok, corrected \in BOOLEAN : act_on_element(ok, corrected)

(***************************************************************************)
(* TabManager                                                              *)
(***************************************************************************)
TabIndices == 0..(MaxTabs - 1)
\* the tab_index argument of close_tab: an index, or -1 for None
TabArgs == TabIndices \cup {-1}

\* TabManager(context) without an initial page; no method has been called
TabIdle ==
    /\ tabs = <<>>
    /\ active_tab_index = 0
    /\ tab_counter = 0
    /\ page_open = {}
    /\ tab_result = "none"

\* TabManager(context, initial_page): __init__ registers the page when given
TabInit ==
    /\ \E initial_page \in BOOLEAN :
          IF initial_page
          THEN tabs = <<0>> /\ tab_counter = 1 /\ page_open = {0}
          ELSE tabs = <<>> /\ tab_counter = 0 /\ page_open = {}
    /\ active_tab_index = 0
    /\ tab_result = "none"

\* the guard of close_tab against closing the last tab: len(self.tabs) == 1
IsLastTabNever == FALSE
IsLastTab == Len(tabs) = 1

\* new_tab(url): context.new_page() fails and nothing is registered; else
\* _register_tab makes the page the active tab, and a failing goto(url) turns
\* the result into a failure after the registration
new_tab(has_url, page_ok, goto_ok) ==
    /\ tab_counter < MaxTabs
    /\ IF ~page_ok
       THEN /\ tab_result' = "failure"
            /\ UNCHANGED <<tabs, active_tab_index, tab_counter, page_open>>
       ELSE /\ tabs' = Append(tabs, tab_counter)
            /\ active_tab_index' = tab_counter
            /\ tab_counter' = tab_counter + 1
            /\ page_open' = page_open \cup {tab_counter}
            /\ tab_result' = IF has_url /\ ~goto_ok THEN "failure" ELSE "success"
    /\ UNCHANGED nonTabVars

\* switch_tab(tab_index): bring_to_front() may raise before the index is
\* stored, title() may raise after it
switch_tab(tab_index, front_ok, title_ok) ==
    /\ IF tab_index \notin Range(tabs)
       THEN /\ tab_result' = "failure"
            /\ UNCHANGED active_tab_index
       ELSE IF ~front_ok
       THEN /\ tab_result' = "failure"
            /\ UNCHANGED active_tab_index
       ELSE /\ active_tab_index' = tab_index
            /\ tab_result' = IF title_ok THEN "success" ELSE "failure"
    /\ UNCHANGED <<tabs, tab_counter, page_open>>
    /\ UNCHANGED nonTabVars

\* the tab close_tab makes active after closing the active one:
\* remaining_indices[0], the first key of self.tabs
NextActiveLast(remaining_indices) == remaining_indices[Len(remaining_indices)]
NextActive(remaining_indices) == remaining_indices[1]

\* close_tab(tab_index): None means the active tab; an unknown index and the
\* last remaining tab are refused; page.close() may raise; a closed page fires
\* its close handler (_on_tab_closed); when the active tab was closed the
\* first remaining key becomes active and is brought to front, which may raise
close_tab(arg, close_ok, front_ok) ==
    /\ LET tab_index == IF arg = -1 THEN active_tab_index ELSE arg
       IN  IF tab_index \notin Range(tabs)
           THEN /\ tab_result' = "failure"
                /\ UNCHANGED <<tabs, active_tab_index, page_open>>
           ELSE IF IsLastTab
           THEN /\ tab_result' = "failure"
                /\ UNCHANGED <<tabs, active_tab_index, page_open>>
           ELSE IF ~close_ok
           THEN /\ tab_result' = "failure"
                /\ UNCHANGED <<tabs, active_tab_index, page_open>>
           ELSE LET remaining == Remove(tabs, tab_index)
                IN  /\ page_open' = page_open \ {tab_index}
                    /\ tabs' = remaining
                    /\ IF active_tab_index = tab_index /\ remaining # <<>>
                       THEN /\ active_tab_index' = NextActive(remaining)
                            /\ tab_result' = IF front_ok THEN "success" ELSE "failure"
                       ELSE /\ UNCHANGED active_tab_index
                            /\ tab_result' = "success"
    /\ UNCHANGED tab_counter
    /\ UNCHANGED nonTabVars

\* the loop of close_all_except_active over tabs_to_close: each close_tab(idx)
\* is refused for an index no longer registered and for the last remaining
\* tab, and fails when page.close() raises; else the tab is dropped
RECURSIVE CloseEach(_, _, _)
CloseEach(ts, todo, failing) ==
    IF todo = <<>> THEN ts
    ELSE LET idx == Head(todo)
             after == IF idx \notin Range(ts) \/ Len(ts) = 1 \/ idx \in failing
                      THEN ts
                      ELSE Remove(ts, idx)
         IN  CloseEach(after, Tail(todo), failing)

\* close_all_except_active(): close_tab on every tab but the active one (no
\* closed tab is the active one, so active_tab_index stays); the result is
\* always a success
close_all_except_active(failing) ==
    /\ LET tabs_to_close == Without(tabs, {active_tab_index})
           remaining == CloseEach(tabs, tabs_to_close, failing)
       IN  /\ tabs' = remaining
           /\ page_open' = page_open \ (Range(tabs) \ Range(remaining))
    /\ tab_result' = "success"
    /\ UNCHANGED <<active_tab_index, tab_counter>>
    /\ UNCHANGED nonTabVars

\* the page of a tab is closed from outside (by the user or the page itself):
\* the close handler _on_tab_closed drops the tab, active_tab_index stays
page_closed(tab_index) ==
    /\ tab_index \in page_open
    /\ page_open' = page_open \ {tab_index}
    /\ tabs' = Remove(tabs, tab_index)
    /\ UNCHANGED <<active_tab_index, tab_counter, tab_result>>
    /\ UNCHANGED nonTabVars

TabNext ==
    \/ \E has_url, page_ok, goto_ok \in BOOLEAN : new_tab(has_url, page_ok, goto_ok) /\ UNCHANGED loop
    \/ \E i \in TabIndices, front_ok, title_ok \in BOOLEAN :
            switch_tab(i, front_ok, title_ok) /\ UNCHANGED loop
    \/ \E arg \in TabArgs, close_ok, front_ok \in BOOLEAN :
            close_tab(arg, close_ok, front_ok) /\ UNCHANGED loop
    \/ \E failing \in SUBSET TabIndices : close_all_except_active(failing) /\ UNCHANGED loop
    \/ \E i \in TabIndices : page_closed(i) /\ UNCHANGED loop

(***************************************************************************)
(* DynamicAutomationAgent.run_dynamic (core/planner.py)                    *)
(***************************************************************************)
\* what _decide_next_action can hand to the loop: None, a goal_achieved or
\* final_answer action, a truthy value with 'action' in it that is not a
\* dict (a JSON string or list), or any other action
Decisions == {"none", "goal_achieved", "final_answer", "malformed", "action"}

\* the 'answer' of a final_answer action: a string (the default
\* 'Task completed.' when the key is missing) or a JSON value that is not a
\* string (a number, null, true)
AnswerValues == {"text", "number"}

\* answer[:200] in TaskContext.set_final_answer
Sliceable(answer) == answer = "text"

NoResult ==
    [returned |-> FALSE, success |-> FALSE, error |-> FALSE, steps_taken |-> 0,
     history |-> <<>>, has_extracted_data |-> FALSE, extracted_data |-> 0,
     final_answer |-> "unset"]

\* the dict built on the normal path
NormalResult(goal, sc, hist, ctx, data, answer) ==
    [returned |-> TRUE, success |-> goal, error |-> FALSE, steps_taken |-> sc,
     history |-> hist, has_extracted_data |-> ctx,
     extracted_data |-> IF ctx THEN data ELSE 0,
     final_answer |-> IF ctx THEN answer ELSE "unset"]

\* the dict built by the except handler
ErrorResult(sc, hist, ctx, data) ==
    [returned |-> TRUE, success |-> FALSE, error |-> TRUE, steps_taken |-> sc,
     history |-> hist, has_extracted_data |-> ctx,
     extracted_data |-> IF ctx THEN data ELSE 0,
     final_answer |-> "unset"]

\* the verdict printed in the summary
Summary(goal, sc) ==
    IF goal THEN "success"
    ELSE IF sc >= max_steps THEN "step_limit"
    ELSE "failed"

AgentFresh ==
    /\ action_history = <<>>
    /\ history_at_start = 0
    /\ pool = FALSE
    /\ browser_instance = FALSE
    /\ session_in_use = FALSE
    /\ task_context = FALSE
    /\ extracted_data = 0
    /\ final_answer = "unset"
    /\ step_count = 0
    /\ goal_achieved = FALSE
    /\ attempt = 0
    /\ executions = 0
    /\ corrections = 0
    /\ only_actions = TRUE
    /\ summary = "none"
    /\ result = NoResult
    /\ release_calls = 0
    /\ cleanup_calls = 0
    /\ agent_had_error = "none"
    /\ last_decision = "none_yet"
    /\ decisions_made = 0

\* an agent as constructed, about to run
AgentInit ==
    /\ max_steps \in 1..MaxSteps
    /\ enable_self_correction \in BOOLEAN
    /\ max_retries \in 0..MaxRetries
    /\ agent_pc = "start"
    /\ runs = 1
    /\ AgentFresh

\* an agent that is never run
AgentIdle ==
    /\ max_steps = 1
    /\ enable_self_correction = FALSE
    /\ max_retries = 0
    /\ agent_pc = "idle"
    /\ runs = 0
    /\ AgentFresh

agentConfig == <<max_steps, enable_self_correction, max_retries>>
runVars == <<runs, history_at_start>>

\* the except handler of run_dynamic
RaiseToHandler(sc, ctx, data) ==
    /\ result' = ErrorResult(sc, action_history, ctx, data)
    /\ agent_pc' = "finally"
    /\ UNCHANGED summary

\* the summary and the return of the normal path
ReturnResult(goal, sc, hist, data, answer) ==
    /\ summary' = Summary(goal, sc)
    /\ result' = NormalResult(goal, sc, hist, task_context, data, answer)
    /\ agent_pc' = "finally"

\* pool = BrowserPool(max_browsers=1); await pool.initialize()
pool_initialize(ok) ==
    /\ agent_pc = "start"
    /\ pool' = TRUE
    /\ IF ok
       THEN agent_pc' = "acquire" /\ UNCHANGED <<summary, result>>
       ELSE RaiseToHandler(step_count, task_context, extracted_data)
    /\ UNCHANGED <<agentConfig, runVars, action_history, browser_instance, session_in_use,
                   task_context, extracted_data, final_answer, step_count,
                   goal_achieved, attempt, executions, corrections, only_actions,
                   release_calls, cleanup_calls, agent_had_error, last_decision, decisions_made>>
    /\ UNCHANGED nonAgentVars

\* browser_instance = await pool.get_browser_instance("dynamic_agent")
acquire_session(ok) ==
    /\ agent_pc = "acquire"
    /\ IF ok
       THEN /\ browser_instance' = TRUE
            /\ session_in_use' = TRUE
            /\ agent_pc' = "setup"
            /\ UNCHANGED <<summary, result>>
       ELSE /\ RaiseToHandler(step_count, task_context, extracted_data)
            /\ UNCHANGED <<browser_instance, session_in_use>>
    /\ UNCHANGED <<agentConfig, runVars, action_history, pool, task_context,
                   extracted_data, final_answer, step_count, goal_achieved,
                   attempt, executions, corrections, only_actions,
                   release_calls, cleanup_calls, agent_had_error, last_decision, decisions_made>>
    /\ UNCHANGED nonAgentVars

\* the executor, the TabManager and the TaskContext are built; the executor's
\* constructor builds LLM clients and can raise
setup(ok) ==
    /\ agent_pc = "setup"
    /\ IF ok
       THEN /\ task_context' = TRUE
            /\ step_count' = 0
            /\ goal_achieved' = FALSE
            /\ agent_pc' = "loop"
            /\ UNCHANGED <<summary, result>>
       ELSE /\ RaiseToHandler(step_count, task_context, extracted_data)
            /\ UNCHANGED <<task_context, step_count, goal_achieved>>
    /\ UNCHANGED <<agentConfig, runVars, action_history, pool, browser_instance,
                   session_in_use, extracted_data, final_answer, attempt,
                   executions, corrections, only_actions, release_calls,
                   cleanup_calls, agent_had_error, last_decision,
                   decisions_made>>
    /\ UNCHANGED nonAgentVars

LoopContinuesInclusive == step_count <= max_steps /\ ~goal_achieved

\* while step_count < self.max_steps and not goal_achieved
LoopContinues == step_count < max_steps /\ ~goal_achieved

\* the while condition is false: summary and return
loop_exit ==
    /\ agent_pc = "loop"
    /\ ~LoopContinues
    /\ ReturnResult(goal_achieved, step_count, action_history, extracted_data,
                    final_answer)
    /\ UNCHANGED <<agentConfig, runVars, action_history, pool, browser_instance,
                   session_in_use, task_context, extracted_data, final_answer,
                   step_count, goal_achieved, attempt, executions, corrections,
                   only_actions, release_calls, cleanup_calls, agent_had_error, last_decision, decisions_made>>
    /\ UNCHANGED nonAgentVars

\* one iteration up to the call of _execute_with_correction
decide(d, answer) ==
    /\ agent_pc = "loop"
    /\ LoopContinues
    /\ step_count' = step_count + 1
    /\ only_actions' = (only_actions /\ d = "action")
    /\ last_decision' = d
    /\ decisions_made' = decisions_made + 1
    /\ CASE d = "none" ->
              /\ ReturnResult(goal_achieved, step_count + 1, action_history,
                              extracted_data, final_answer)
              /\ UNCHANGED <<goal_achieved, final_answer, attempt, executions,
                             corrections>>
         [] d = "goal_achieved" ->
              /\ goal_achieved' = TRUE
              /\ ReturnResult(TRUE, step_count + 1, action_history,
                              extracted_data, final_answer)
              /\ UNCHANGED <<final_answer, attempt, executions, corrections>>
         [] d = "final_answer" ->
              /\ final_answer' = IF task_context THEN answer ELSE final_answer
              /\ IF task_context /\ ~Sliceable(answer)
                 THEN /\ RaiseToHandler(step_count + 1, task_context,
                                        extracted_data)
                      /\ UNCHANGED goal_achieved
                 ELSE /\ goal_achieved' = TRUE
                      /\ ReturnResult(TRUE, step_count + 1, action_history,
                                      extracted_data, final_answer')
              /\ UNCHANGED <<attempt, executions, corrections>>
         [] d = "malformed" ->
              /\ RaiseToHandler(step_count + 1, task_context, extracted_data)
              /\ UNCHANGED <<goal_achieved, final_answer, attempt, executions,
                             corrections>>
         [] d = "action" ->
              /\ agent_pc' = "execute"
              /\ attempt' = 0
              /\ executions' = 0
              /\ corrections' = 0
              /\ UNCHANGED <<goal_achieved, final_answer, summary, result>>
    /\ UNCHANGED <<agentConfig, runVars, action_history, pool, browser_instance,
                   session_in_use, task_context, extracted_data, release_calls,
                   cleanup_calls, agent_had_error>>
    /\ UNCHANGED nonAgentVars

\* the history entry of a step; executions, corrections and last_ok are
\* history fields, the others are what the code stores
EntryBeforeIncrement(status, att, ex, corr, ok) ==
    [step |-> step_count - 1, status |-> status, attempts |-> att,
     executions |-> ex, corrections |-> corr, last_ok |-> ok]
Entry(status, att, ex, corr, ok) ==
    [step |-> step_count, status |-> status, attempts |-> att,
     executions |-> ex, corrections |-> corr, last_ok |-> ok]

AttemptsOffByOne(att) == att

\* 'attempts': attempt + 1
Attempts(att) == att + 1

\* action_history.append(...), then the critical_failure test
AfterStep(entry, data) ==
    /\ action_history' = Append(action_history, entry)
    /\ IF entry.status = "critical_failure"
       THEN ReturnResult(goal_achieved, step_count,
                         Append(action_history, entry), data, final_answer)
       ELSE agent_pc' = "loop" /\ UNCHANGED <<summary, result>>

GivesUpOnlyWhenDisabled == ~enable_self_correction
GivesUpAtLimitOnly == attempt >= max_retries

\* if not self.enable_self_correction or attempt >= max_retries
GivesUp == ~enable_self_correction \/ attempt >= max_retries

\* one executor.execute_intelligent_step call of _execute_with_correction
execute(ok, stores) ==
    /\ agent_pc = "execute"
    /\ executions' = executions + 1
    /\ IF ok
       THEN /\ extracted_data' =
                  IF stores /\ task_context THEN extracted_data + 1
                  ELSE extracted_data
            /\ AfterStep(Entry("success", Attempts(attempt), executions + 1,
                               corrections, TRUE),
                         extracted_data')
       ELSE IF GivesUp
       THEN /\ AfterStep(Entry("failed", Attempts(attempt), executions + 1,
                               corrections, FALSE),
                         extracted_data)
            /\ UNCHANGED extracted_data
       ELSE /\ agent_pc' = "correct"
            /\ UNCHANGED <<action_history, summary, result, extracted_data>>
    /\ UNCHANGED <<agentConfig, runVars, pool, browser_instance, session_in_use,
                   task_context, final_answer, step_count, goal_achieved,
                   attempt, corrections, only_actions, release_calls,
                   cleanup_calls, agent_had_error, last_decision,
                   decisions_made>>
    /\ UNCHANGED nonAgentVars

\* _ask_for_correction returned a corrected action (given) or None
correct(given) ==
    /\ agent_pc = "correct"
    /\ IF given
       THEN /\ attempt' = attempt + 1
            /\ corrections' = corrections + 1
            /\ IF attempt + 1 <= max_retries
               THEN /\ agent_pc' = "execute"
                    /\ UNCHANGED <<action_history, summary, result>>
               ELSE AfterStep(Entry("failed_after_retries", max_retries + 1,
                                    executions, corrections + 1, FALSE),
                              extracted_data)
       ELSE /\ AfterStep(Entry("correction_failed", Attempts(attempt),
                               executions, corrections, FALSE),
                         extracted_data)
            /\ UNCHANGED <<attempt, corrections>>
    /\ UNCHANGED <<agentConfig, runVars, pool, browser_instance, session_in_use,
                   task_context, extracted_data, final_answer, step_count,
                   goal_achieved, executions, only_actions, release_calls,
                   cleanup_calls, agent_had_error, last_decision,
                   decisions_made>>
    /\ UNCHANGED nonAgentVars

\* release_browser_instance(browser_instance): had_error keeps its default
AgentHadError == "false"

AgentMustReleaseWithContext == task_context /\ pool

\* if browser_instance and pool
AgentMustRelease == browser_instance /\ pool

\* the finally block: release, then cleanup
run_finally ==
    /\ agent_pc = "finally"
    /\ IF AgentMustRelease
       THEN /\ release_calls' = release_calls + 1
            /\ agent_had_error' = AgentHadError
            /\ session_in_use' = FALSE
       ELSE UNCHANGED <<release_calls, agent_had_error, session_in_use>>
    /\ cleanup_calls' = IF pool THEN cleanup_calls + 1 ELSE cleanup_calls
    /\ agent_pc' = "done"
    /\ UNCHANGED <<agentConfig, runVars, action_history, pool, browser_instance,
                   task_context, extracted_data, final_answer, step_count,
                   goal_achieved, attempt, executions, corrections,
                   only_actions, summary, result, last_decision,
                   decisions_made>>
    /\ UNCHANGED nonAgentVars

\* run_dynamic is called again on the same agent object after a run has
\* ended: the locals are set anew (pool, browser_instance, step_count,
\* task_context, tab_manager), self.action_history is kept as it is
run_again ==
    /\ agent_pc = "done"
    /\ runs < MaxRuns
    /\ runs' = runs + 1
    /\ history_at_start' = Len(action_history)
    /\ agent_pc' = "start"
    /\ pool' = FALSE
    /\ browser_instance' = FALSE
    /\ session_in_use' = FALSE
    /\ task_context' = FALSE
    /\ extracted_data' = 0
    /\ final_answer' = "unset"
    /\ step_count' = 0
    /\ goal_achieved' = FALSE
    /\ attempt' = 0
    /\ executions' = 0
    /\ corrections' = 0
    /\ only_actions' = TRUE
    /\ summary' = "none"
    /\ result' = NoResult
    /\ release_calls' = 0
    /\ cleanup_calls' = 0
    /\ agent_had_error' = "none"
    /\ last_decision' = "none_yet"
    /\ decisions_made' = 0
    /\ UNCHANGED <<agentConfig, action_history>>
    /\ UNCHANGED nonAgentVars

AgentNext ==
    \/ \E ok \in BOOLEAN : pool_initialize(ok)
    \/ \E ok \in BOOLEAN : acquire_session(ok)
    \/ \E ok \in BOOLEAN : setup(ok)
    \/ loop_exit
    \/ \E d \in Decisions, answer \in AnswerValues : decide(d, answer)
    \/ \E ok, stores \in BOOLEAN : execute(ok, stores)
    \/ \E given \in BOOLEAN : correct(given)
    \/ run_finally

(***************************************************************************)
(* _execute_single_task (tools/automation_tools.py), run under             *)
(* asyncio.wait_for by _execute_intelligent_tasks_parallel                 *)
(***************************************************************************)
TaskFresh ==
    /\ task_browser_instance = FALSE
    /\ task_in_use = FALSE
    /\ step_results = <<>>
    /\ task_result = "none"
    /\ task_cancelled = FALSE
    /\ task_release_calls = 0
    /\ task_had_error = "none"

TaskInit ==
    /\ task_steps \in 1..MaxTaskSteps
    /\ task_pc = "start"
    /\ TaskFresh

\* no task was submitted
TaskIdle ==
    /\ task_steps = 1
    /\ task_pc = "idle"
    /\ TaskFresh

\* browser_instance = await pool.get_browser_instance(task.task_id, timeout=30.0)
task_acquire(ok) ==
    /\ task_pc = "start"
    /\ IF ok
       THEN /\ task_browser_instance' = TRUE
            /\ task_in_use' = TRUE
            /\ task_pc' = "steps"
            /\ UNCHANGED task_result
       ELSE /\ task_result' = "unexpected_error"
            /\ task_pc' = "finally"
            /\ UNCHANGED <<task_browser_instance, task_in_use>>
    /\ UNCHANGED <<task_steps, step_results, task_cancelled,
                   task_release_calls, task_had_error>>
    /\ UNCHANGED nonTaskVars

\* one iteration of the step loop: retry_async returned (ok) or raised
task_step(ok) ==
    /\ task_pc = "steps"
    /\ Len(step_results) < task_steps
    /\ step_results' = Append(step_results, ok)
    /\ IF ~ok
       THEN task_result' = "execution_error" /\ task_pc' = "finally"
       ELSE IF Len(step_results) + 1 = task_steps
       THEN task_result' = "success" /\ task_pc' = "finally"
       ELSE UNCHANGED <<task_result, task_pc>>
    /\ UNCHANGED <<task_steps, task_browser_instance, task_in_use,
                   task_cancelled, task_release_calls, task_had_error>>
    /\ UNCHANGED nonTaskVars

\* asyncio.wait_for's timeout fires: CancelledError is raised at the await
\* the task is suspended at
task_timeout ==
    /\ task_pc \in {"start", "steps", "releasing"}
    /\ ~task_cancelled
    /\ task_cancelled' = TRUE
    /\ task_result' = "cancelled"
    /\ task_pc' = IF task_pc = "releasing" THEN "done" ELSE "finally"
    /\ UNCHANGED <<task_steps, task_browser_instance, task_in_use,
                   step_results, task_release_calls, task_had_error>>
    /\ UNCHANGED nonTaskVars

\* had_error = len(step_results) == 0 or not step_results[-1].get('success', False)
TaskHadError ==
    Len(step_results) = 0 \/ ~step_results[Len(step_results)]

\* the finally block: release_browser_instance is called and waits for the
\* pool lock
task_finally ==
    /\ task_pc = "finally"
    /\ IF task_browser_instance
       THEN /\ task_release_calls' = task_release_calls + 1
            /\ task_had_error' = IF TaskHadError THEN "true" ELSE "false"
            /\ task_pc' = "releasing"
       ELSE /\ task_pc' = "done"
            /\ UNCHANGED <<task_release_calls, task_had_error>>
    /\ UNCHANGED <<task_steps, task_browser_instance, task_in_use,
                   step_results, task_result, task_cancelled>>
    /\ UNCHANGED nonTaskVars

\* release_browser_instance got the lock and cleared in_use
task_release_done ==
    /\ task_pc = "releasing"
    /\ task_in_use' = FALSE
    /\ task_pc' = "done"
    /\ UNCHANGED <<task_steps, task_browser_instance, step_results,
                   task_result, task_cancelled, task_release_calls,
                   task_had_error>>
    /\ UNCHANGED nonTaskVars

TaskNext ==
    \/ \E ok \in BOOLEAN : task_acquire(ok)
    \/ \E ok \in BOOLEAN : task_step(ok)
    \/ task_timeout
    \/ task_finally
    \/ task_release_done

(***************************************************************************)
(* IntelligentElementFinder.find_element_intelligently                     *)
(* (core/element_finder.py)                                                *)
(*                                                                         *)
(* An element is described by what the scoring rules look at, relative to  *)
(* the description searched for:                                           *)
(*   text  "contains": the description is a substring of the text;         *)
(*         "similar":  not contained, SequenceMatcher ratio 0.7, one word  *)
(*                     in common;                                          *)
(*         "overlap":  not contained, ratio at most 0.6, one word in       *)
(*                     common;                                             *)
(*         "none":     no text, or text unrelated to the description;      *)
(*   attr  "placeholder": the placeholder contains the description;        *)
(*         "title": the title contains the description;                    *)
(*   tag   the description names the element's tag (button, link, input);  *)
(*   y     position.y.                                                     *)
(* The pages searched are those whose elements' tags the description does  *)
(* not name and the descriptions those without 'top' and 'bottom'; heights *)
(* are positive and aria-labels do not contain the description.            *)
(***************************************************************************)
TextKinds == {"contains", "similar", "overlap", "none"}
AttrKinds == {"none", "placeholder", "title"}
TagKinds == {FALSE}
YPositions == {100, 2000}
DescriptionTops == {FALSE}

ElementKinds == [text : TextKinds, attr : AttrKinds, tag : TagKinds, y : YPositions]

\* the page's script returns the elements sorted by position
SortedByY(s) == \A i, j \in 1..Len(s) : i < j => s[i].y <= s[j].y

PageLists ==
    {s \in UNION {[1..n -> ElementKinds] : n \in 0..MaxElements} : SortedByY(s)}

\* the characters of an LLM answer: a sign, digits, anything else
Chars == {"-", "0", "1", "x"}
Digits == {"0", "1"}
Responses == UNION {[1..n -> Chars] : n \in 0..MaxResponseLen}

\* what the LLM call does: it raises, or answers with a text
Answers ==
    {[raised |-> TRUE, text |-> <<>>]}
        \cup {[raised |-> FALSE, text |-> t] : t \in Responses}

DigitValue(c) == IF c = "0" THEN 0 ELSE 1

\* the value of the longest run of digits of s that starts at position i,
\* given the value acc of the digits before it
RECURSIVE DigitsFrom(_, _, _)
DigitsFrom(s, i, acc) ==
    IF i <= Len(s) /\ s[i] \in Digits
    THEN DigitsFrom(s, i + 1, acc * 10 + DigitValue(s[i]))
    ELSE acc

\* re.search(r'-?\d+', text) from position i on
RECURSIVE SearchNumber(_, _)
SearchNumber(s, i) ==
    IF i > Len(s) THEN [found |-> FALSE, value |-> 0]
    ELSE IF s[i] \in Digits THEN [found |-> TRUE, value |-> DigitsFrom(s, i, 0)]
    ELSE IF s[i] = "-" /\ i + 1 <= Len(s) /\ s[i + 1] \in Digits
    THEN [found |-> TRUE, value |-> 0 - DigitsFrom(s, i + 1, 0)]
    ELSE SearchNumber(s, i + 1)

extract_number(s) == SearchNumber(s, 1)

\* the score _fallback_element_matching gives an element
FallbackScore(e) ==
      (IF e.text = "contains" THEN 30
       ELSE IF e.text = "similar" THEN (70 * 25) \div 100
       ELSE 0)
    + (IF e.attr = "placeholder" THEN 20 ELSE 0)
    + (IF e.attr = "title" THEN 15 ELSE 0)
    + (IF e.tag THEN 15 ELSE 0)
    + (IF description_top /\ e.y < 200 THEN 10 ELSE 0)

\* the score _filter_by_relevance gives an element
RelevanceScore(e) ==
      (IF e.text = "contains" THEN 50 ELSE 0)
    + (IF e.text \in {"similar", "overlap"} THEN 10 ELSE 0)
    + (IF e.attr = "placeholder" THEN 40 ELSE 0)
    + (IF e.tag THEN 20 ELSE 0)
    + (IF description_top /\ e.y < 200 THEN 15 ELSE 0)

\* sorted(..., reverse=True) on a key: stable, descending
RECURSIVE InsertDesc(_, _, _)
InsertDesc(x, s, key) ==
    IF s = <<>> THEN <<x>>
    ELSE IF key[Head(s)] >= key[x] THEN <<Head(s)>> \o InsertDesc(x, Tail(s), key)
    ELSE <<x>> \o s

RECURSIVE SortDesc(_, _)
SortDesc(s, key) ==
    IF s = <<>> THEN <<>>
    ELSE InsertDesc(s[Len(s)], SortDesc(SubSeq(s, 1, Len(s) - 1), key), key)

\* s[:n]
FirstN(s, n) == SubSeq(s, 1, IF Len(s) < n THEN Len(s) ELSE n)

\* candidate lists are sequences of positions in all_elements
AllIndices == [k \in 1..Len(all_elements) |-> k]

InViewport(k) == all_elements[k].y >= 0 /\ all_elements[k].y < 1500

ViewportElements == SelectSeq(AllIndices, InViewport)

IsRelevant(k) == RelevanceScore(all_elements[k]) > 0

RelevantElements ==
    LET scored == SelectSeq(AllIndices, IsRelevant)
        key == [k \in 1..Len(all_elements) |-> RelevanceScore(all_elements[k])]
    IN  IF scored = <<>> THEN FirstN(AllIndices, 150)
        ELSE FirstN(SortDesc(scored, key), 150)

NoFinderResult ==
    [returned |-> FALSE, success |-> FALSE, confidence |-> "none", element |-> 0,
     method |-> "none", has_count |-> FALSE, scanned |-> 0,
     strategies |-> <<>>]

\* {"success": False, "error": ...}
BareFailure ==
    [returned |-> TRUE, success |-> FALSE, confidence |-> "none", element |-> 0,
     method |-> "none", has_count |-> FALSE, scanned |-> 0,
     strategies |-> <<>>]

Scores(k) == FallbackScore(all_elements[k]) > 0

\* "searched_strategies" of the failure _fallback_element_matching returns
SearchedStrategies == <<"viewport", "relevance", "full scan">>

\* the label of a rule-based match: "medium" if best_match['score'] > 20
ConfidenceInclusive(score) == IF score >= 20 THEN "medium" ELSE "low"
Confidence(score) == IF score > 20 THEN "medium" ELSE "low"

\* _fallback_element_matching(description, cands)
fallback_element_matching(cands) ==
    LET matches == SelectSeq(cands, Scores)
        key == [k \in 1..Len(all_elements) |-> FallbackScore(all_elements[k])]
        best == SortDesc(matches, key)[1]
    IN  IF matches # <<>>
        THEN [returned |-> TRUE, success |-> TRUE,
              confidence |-> Confidence(key[best]),
              element |-> best, method |-> "rule", has_count |-> FALSE,
              scanned |-> Len(cands), strategies |-> <<>>]
        ELSE [returned |-> TRUE, success |-> FALSE, confidence |-> "none",
              element |-> 0, method |-> "rule", has_count |-> TRUE,
              scanned |-> Len(cands), strategies |-> SearchedStrategies]

\* _ai_powered_element_matching(description, cands)
ai_powered_element_matching(cands, answer) ==
    LET elements_to_analyze == FirstN(cands, 100)
        index == extract_number(answer.text)
    IN  IF ~answer.raised /\ index.found /\ 0 <= index.value
           /\ index.value < Len(elements_to_analyze)
        THEN [returned |-> TRUE, success |-> TRUE, confidence |-> "high",
              element |-> elements_to_analyze[index.value + 1], method |-> "ai",
              has_count |-> FALSE, scanned |-> Len(cands),
              strategies |-> <<>>]
        ELSE fallback_element_matching(cands)

FinderFresh ==
    /\ all_elements = <<>>
    /\ finder_result = NoFinderResult
    /\ tiers_run = <<>>
    /\ structural_valid = FALSE
    /\ vision_succeeded = FALSE
    /\ scored_all = {}

FinderInit ==
    /\ page_elements \in PageLists
    /\ description_top \in DescriptionTops
    /\ vision_enabled \in BOOLEAN
    /\ finder_pc = "start"
    /\ FinderFresh

\* find_element_intelligently is never called
FinderIdle ==
    /\ page_elements = <<>>
    /\ description_top = FALSE
    /\ vision_enabled = FALSE
    /\ finder_pc = "idle"
    /\ FinderFresh

finderInput == <<page_elements, description_top, vision_enabled>>

\* all_elements = await self._get_interactive_elements(page), and the
\* test for an empty list; a raise goes to the outer except
get_interactive_elements(ok) ==
    /\ finder_pc = "start"
    /\ IF ~ok
       THEN /\ finder_result' = BareFailure
            /\ finder_pc' = "done"
            /\ UNCHANGED all_elements
       ELSE /\ all_elements' = page_elements
            /\ IF page_elements = <<>>
               THEN finder_result' = BareFailure /\ finder_pc' = "done"
               ELSE finder_pc' = "viewport" /\ UNCHANGED finder_result
    /\ UNCHANGED <<finderInput, tiers_run, structural_valid, vision_succeeded,
                   scored_all>>
    /\ UNCHANGED nonFinderVars

\* tier 1, viewport strategy
match_viewport(answer) ==
    /\ finder_pc = "viewport"
    /\ IF ViewportElements # <<>>
       THEN LET r == ai_powered_element_matching(ViewportElements, answer)
            IN  /\ tiers_run' = Append(tiers_run, "viewport")
                /\ structural_valid' = (structural_valid \/ r.method = "ai")
                /\ IF r.success
                   THEN finder_result' = r /\ finder_pc' = "done"
                   ELSE finder_pc' = "relevance" /\ UNCHANGED finder_result
       ELSE /\ finder_pc' = "relevance"
            /\ UNCHANGED <<tiers_run, structural_valid, finder_result>>
    /\ UNCHANGED <<finderInput, all_elements, vision_succeeded, scored_all>>
    /\ UNCHANGED nonFinderVars

\* tier 1, relevance strategy
match_relevance(answer) ==
    /\ finder_pc = "relevance"
    /\ IF RelevantElements # <<>>
       THEN LET r == ai_powered_element_matching(RelevantElements, answer)
            IN  /\ tiers_run' = Append(tiers_run, "relevance")
                /\ structural_valid' = (structural_valid \/ r.method = "ai")
                /\ IF r.success
                   THEN finder_result' = r /\ finder_pc' = "done"
                   ELSE finder_pc' = "vision" /\ UNCHANGED finder_result
       ELSE /\ finder_pc' = "vision"
            /\ UNCHANGED <<tiers_run, structural_valid, finder_result>>
    /\ UNCHANGED <<finderInput, all_elements, vision_succeeded, scored_all>>
    /\ UNCHANGED nonFinderVars

\* tier 2: _find_with_vision selected a marked element or returned a failure
find_with_vision(selected) ==
    /\ finder_pc = "vision"
    /\ IF vision_enabled
       THEN /\ tiers_run' = Append(tiers_run, "vision")
            /\ IF selected
               THEN /\ finder_result' =
                          [returned |-> TRUE, success |-> TRUE,
                           confidence |-> "high", element |-> 0,
                           method |-> "vision", has_count |-> FALSE,
                           scanned |-> 0, strategies |-> <<>>]
                    /\ vision_succeeded' = TRUE
                    /\ finder_pc' = "done"
               ELSE /\ finder_pc' = "rule"
                    /\ UNCHANGED <<finder_result, vision_succeeded>>
       ELSE /\ finder_pc' = "rule"
            /\ UNCHANGED <<tiers_run, finder_result, vision_succeeded>>
    /\ UNCHANGED <<finderInput, all_elements, structural_valid, scored_all>>
    /\ UNCHANGED nonFinderVars

RuleBasedCandidatesViewport == ViewportElements

\* the list tier 3 is given: all_elements
RuleBasedCandidates == AllIndices

\* tier 3: return await self._fallback_element_matching(description, all_elements)
rule_based ==
    /\ finder_pc = "rule"
    /\ finder_result' = fallback_element_matching(RuleBasedCandidates)
    /\ scored_all' = Range(RuleBasedCandidates)
    /\ tiers_run' = Append(tiers_run, "rule")
    /\ finder_pc' = "done"
    /\ UNCHANGED <<finderInput, all_elements, structural_valid, vision_succeeded>>
    /\ UNCHANGED nonFinderVars

\* the elements _fallback_element_matching is called with directly: the
\* tag may match a keyword of the description
FallbackElementKinds ==
    [text : {"contains", "similar", "none"}, attr : AttrKinds, tag : BOOLEAN,
     y : YPositions]

FallbackLists == UNION {[1..n -> FallbackElementKinds] : n \in 0..MaxElements}

\* a call of _fallback_element_matching(description, elements) on its own
FallbackInit ==
    /\ page_elements \in FallbackLists
    /\ all_elements = page_elements
    /\ description_top \in BOOLEAN
    /\ vision_enabled = FALSE
    /\ finder_pc = "fallback"
    /\ finder_result = NoFinderResult
    /\ tiers_run = <<>>
    /\ structural_valid = FALSE
    /\ vision_succeeded = FALSE
    /\ scored_all = {}

fallback_call ==
    /\ finder_pc = "fallback"
    /\ finder_result' = fallback_element_matching(AllIndices)
    /\ finder_pc' = "done"
    /\ UNCHANGED <<finderInput, all_elements, tiers_run, structural_valid,
                   vision_succeeded, scored_all>>
    /\ UNCHANGED nonFinderVars

FinderNext ==
    \/ \E ok \in BOOLEAN : get_interactive_elements(ok)
    \/ \E answer \in Answers : match_viewport(answer)
    \/ \E answer \in Answers : match_relevance(answer)
    \/ \E selected \in BOOLEAN : find_with_vision(selected)
    \/ rule_based

(***************************************************************************)
(* IntelligentElementFinder._find_with_vision (core/element_finder.py)     *)
(***************************************************************************)
NoNumber == [found |-> FALSE, value |-> 0]

\* _find_with_vision is not running
VisionIdle ==
    /\ vision_llm = FALSE
    /\ markable = 0
    /\ vision_pc = "idle"
    /\ element_map = 0
    /\ element_id = NoNumber
    /\ markers_on_page = 0
    /\ marked = 0
    /\ removal_runs = 0
    /\ removal_ok = FALSE
    /\ vision_result = "none"

\* find_element_intelligently has called _find_with_vision, which it does
\* only with self.vision_llm set; the page may still carry the markers of an
\* earlier call whose removal raised
VisionInit ==
    /\ vision_llm = TRUE
    /\ markable \in 0..MaxElements
    /\ vision_pc = "inject"
    /\ element_map = 0
    /\ element_id = NoNumber
    /\ markers_on_page \in 0..MaxElements
    /\ marked = 0
    /\ removal_runs = 0
    /\ removal_ok = FALSE
    /\ vision_result = "none"

\* the page's script of _remove_visual_markers removes every .som-marker
AfterRemovalKept(m) == m
AfterRemoval(m) == 0

\* element_map = await self._inject_visual_markers(page): the script appends
\* one marker per markable element and returns the map; when the evaluate
\* raises, the markers appended so far (done of them) stay; an empty map
\* returns a failure at once
inject_visual_markers(ok, done) ==
    /\ vision_pc = "inject"
    /\ done \in 0..markable
    /\ IF ok
       THEN /\ element_map' = markable
            /\ markers_on_page' = markers_on_page + markable
            /\ marked' = markable
            /\ IF markable = 0
               THEN vision_result' = "failure" /\ vision_pc' = "done"
               ELSE vision_pc' = "screenshot" /\ UNCHANGED vision_result
       ELSE /\ markers_on_page' = markers_on_page + done
            /\ marked' = done
            /\ vision_pc' = "except"
            /\ UNCHANGED <<element_map, vision_result>>
    /\ UNCHANGED <<vision_llm, markable, element_id, removal_runs, removal_ok>>
    /\ UNCHANGED nonVisionVars

\* page.screenshot(), the prompt, and the test of self.vision_llm, whose
\* failure returns without a removal
take_screenshot(ok) ==
    /\ vision_pc = "screenshot"
    /\ IF ~ok
       THEN vision_pc' = "except" /\ UNCHANGED vision_result
       ELSE IF ~vision_llm
       THEN vision_result' = "failure" /\ vision_pc' = "done"
       ELSE vision_pc' = "ask" /\ UNCHANGED vision_result
    /\ UNCHANGED <<vision_llm, markable, element_map, element_id,
                   markers_on_page, marked, removal_runs, removal_ok>>
    /\ UNCHANGED nonVisionVars

\* response = await self.vision_llm.ainvoke(...); extract_number
ask_vision(answer) ==
    /\ vision_pc = "ask"
    /\ IF answer.raised
       THEN vision_pc' = "except" /\ UNCHANGED element_id
       ELSE /\ element_id' = extract_number(answer.text)
            /\ vision_pc' = "remove"
    /\ UNCHANGED <<vision_llm, markable, element_map, markers_on_page, marked,
                   removal_runs, removal_ok, vision_result>>
    /\ UNCHANGED nonVisionVars

\* await self._remove_visual_markers(page) on the normal path, then the
\* result: the element of the map the id names, or a failure
remove_and_return(ok) ==
    /\ vision_pc = "remove"
    /\ removal_runs' = removal_runs + 1
    /\ removal_ok' = ok
    /\ IF ok
       THEN /\ markers_on_page' = AfterRemoval(markers_on_page)
            /\ vision_result' =
                  IF element_id.found /\ element_id.value >= 0
                     /\ element_id.value < element_map
                  THEN "selected" ELSE "failure"
            /\ vision_pc' = "done"
       ELSE /\ vision_pc' = "except"
            /\ UNCHANGED <<markers_on_page, vision_result>>
    /\ UNCHANGED <<vision_llm, markable, element_map, element_id, marked>>
    /\ UNCHANGED nonVisionVars

\* except Exception: the removal is run, what it raises is dropped, and a
\* failure is returned
vision_except(ok) ==
    /\ vision_pc = "except"
    /\ removal_runs' = removal_runs + 1
    /\ removal_ok' = ok
    /\ markers_on_page' =
          IF ok THEN AfterRemoval(markers_on_page) ELSE markers_on_page
    /\ vision_result' = "failure"
    /\ vision_pc' = "done"
    /\ UNCHANGED <<vision_llm, markable, element_map, element_id, marked>>
    /\ UNCHANGED nonVisionVars

VisionNext ==
    \/ \E ok \in BOOLEAN, done \in 0..MaxElements : inject_visual_markers(ok, done)
    \/ \E ok \in BOOLEAN : take_screenshot(ok)
    \/ \E answer \in Answers : ask_vision(answer)
    \/ \E ok \in BOOLEAN : remove_and_return(ok)
    \/ \E ok \in BOOLEAN : vision_except(ok)

(***************************************************************************)
(* TaskContext (core/task_context.py) as the steps handled by the         *)
(* executor's execute_intelligent_step write to it (core/executor.py)      *)
(***************************************************************************)
\* the keys an extraction stores under (store_as, else the description)
DataKeys == {"price", "title"}
\* what an extraction reads from the page; "" is no data
DataValues == {"", "10", "12"}
\* the urls of navigate steps
Urls == {"a.example", "b.example"}
\* the file paths of screenshot steps
Paths == {"one.png", "two.png"}
\* a key that is not in the dict
NoData == "absent"

\* no TaskContext is in use
ContextIdle ==
    /\ context_pc = "idle"
    /\ context_extracted_data = [k \in DataKeys |-> NoData]
    /\ visited_urls = <<>>
    /\ screenshots = <<>>

\* TaskContext(original_goal=user_goal): the fields take their defaults
ContextInit ==
    /\ context_pc = "run"
    /\ context_extracted_data = [k \in DataKeys |-> NoData]
    /\ visited_urls = <<>>
    /\ screenshots = <<>>

\* a 'navigate' step: page.goto, then add_visited_url, which appends a url
\* that is not yet in the list
navigate_step(url, ok) ==
    /\ context_pc = "run"
    /\ visited_urls' = IF ok /\ url \notin Range(visited_urls)
                       THEN Append(visited_urls, url)
                       ELSE visited_urls
    /\ UNCHANGED <<context_pc, context_extracted_data, screenshots>>
    /\ UNCHANGED nonContextVars

\* a 'screenshot' step: page.screenshot, then add_screenshot
screenshot_step(path, ok) ==
    /\ context_pc = "run"
    /\ Len(screenshots) < MaxScreenshots
    /\ screenshots' = IF ok THEN Append(screenshots, path) ELSE screenshots
    /\ UNCHANGED <<context_pc, context_extracted_data, visited_urls>>
    /\ UNCHANGED nonContextVars

\* an 'intelligent_extract' step (_intelligent_extract): when the element is
\* found and read, data that is not empty is stored by store_extracted_data:
\* self.extracted_data[key] = value
extract_step(store_as, data, ok) ==
    /\ context_pc = "run"
    /\ context_extracted_data' =
          IF ok /\ data # ""
          THEN [context_extracted_data EXCEPT ![store_as] = data]
          ELSE context_extracted_data
    /\ UNCHANGED <<context_pc, visited_urls, screenshots>>
    /\ UNCHANGED nonContextVars

ContextNext ==
    \/ \E url \in Urls, ok \in BOOLEAN : navigate_step(url, ok)
    \/ \E path \in Paths, ok \in BOOLEAN : screenshot_step(path, ok)
    \/ \E store_as \in DataKeys, data \in DataValues, ok \in BOOLEAN :
            extract_step(store_as, data, ok)

(***************************************************************************)
(* retry_async (utils/retry.py) as the step loop of _execute_single_task   *)
(* calls it (tools/automation_tools.py), for a task whose retry_count      *)
(* went through TaskValidator.validate_task (utils/validators.py)          *)
(*                                                                         *)
(* An invocation of the wrapped function ends in one of                    *)
(*   "ok":             it returned;                                        *)
(*   "Exception":      it raised an exception of a class listed in         *)
(*                     config.exceptions, which is (Exception,);           *)
(*   "CancelledError": it raised one that is not (a BaseException).        *)
(***************************************************************************)
CallOutcomes == {"ok", "Exception", "CancelledError"}

\* RetryConfig.initial_delay, exponential_base and max_delay of the call
initial_delay == 1
exponential_base == 2
max_delay == 60

Min(a, b) == IF a <= b THEN a ELSE b

\* no retry_async call has ended
NoOutcome == [kind |-> "none", exc |-> "none", of |-> 0]

\* no task went through the step loop
RetryIdle ==
    retry = [pc |-> "idle"]

\* a task as submitted: retry_count is any integer the JSON may carry
RetryInit ==
    \E n \in 1..MaxTaskSteps, rc \in -1..MaxAttempts :
        retry = [pc |-> "submitted", steps |-> n, retry_count |-> rc,
                 current_step_index |-> 0, step_results |-> <<>>,
                 attempt |-> 0, delay |-> initial_delay,
                 last_exception |-> 0, call_outcomes |-> <<>>,
                 outcome |-> NoOutcome, task_result |-> "none",
                 failed_at_step |-> -1]

\* if not isinstance(retry_count, int) or retry_count < 0: raise ValidationError
RetryCountValid(rc) == rc >= 0

\* validate_task on the submitted task
validate_task ==
    /\ retry.pc = "submitted"
    /\ retry' = [retry EXCEPT !.pc = IF RetryCountValid(retry.retry_count)
                                     THEN "step" ELSE "rejected"]
    /\ UNCHANGED nonRetryVars

\* for step_index, step in enumerate(task.steps): retry_async is entered with
\* max_attempts=task.retry_count; delay = config.initial_delay
step_begin ==
    /\ retry.pc = "step"
    /\ retry' = [retry EXCEPT !.pc = "retry",
                              !.current_step_index = Len(retry.step_results),
                              !.attempt = 0,
                              !.delay = initial_delay,
                              !.last_exception = 0,
                              !.call_outcomes = <<>>,
                              !.outcome = NoOutcome]
    /\ UNCHANGED nonRetryVars

\* the step loop after retry_async returned: the result is appended and the
\* loop goes on, or the task returns success
StepSucceeded(r) ==
    LET results == Append(r.step_results, TRUE)
    IN  IF Len(results) = r.steps
        THEN [r EXCEPT !.step_results = results, !.pc = "done",
                       !.task_result = "success"]
        ELSE [r EXCEPT !.step_results = results, !.pc = "step"]

\* except Exception as step_error: the failure is appended and
\* TaskExecutionError(task_id, step_index, ...) ends the task
StepFailed(r) ==
    [r EXCEPT !.step_results = Append(r.step_results, FALSE),
              !.pc = "done",
              !.task_result = "execution_error",
              !.failed_at_step = r.current_step_index]

\* an exception no except clause of the task catches
StepCancelled(r) ==
    [r EXCEPT !.pc = "done", !.task_result = "cancelled"]

\* if attempt == config.max_attempts: raise
LastAttemptAfterLimit(attempt_no, limit) == attempt_no + 1 = limit
LastAttempt(attempt_no, limit) == attempt_no = limit

\* one iteration of for attempt in range(1, config.max_attempts + 1):
\* func is awaited and ends with o
retry_attempt(o) ==
    /\ retry.pc = "retry"
    /\ retry.attempt < retry.retry_count
    /\ LET n == retry.attempt + 1
           called == [retry EXCEPT !.attempt = n,
                                   !.call_outcomes = Append(@, o)]
       IN  retry' =
             IF o = "ok"
             THEN StepSucceeded([called EXCEPT
                      !.outcome = [kind |-> "returned", exc |-> "none", of |-> n]])
             ELSE IF o = "CancelledError"
             THEN StepCancelled([called EXCEPT
                      !.outcome = [kind |-> "raised", exc |-> o, of |-> n]])
             ELSE IF LastAttempt(n, retry.retry_count)
             THEN StepFailed([called EXCEPT
                      !.last_exception = n,
                      !.outcome = [kind |-> "raised", exc |-> o, of |-> n]])
             ELSE [called EXCEPT !.last_exception = n, !.pc = "sleep"]
    /\ UNCHANGED nonRetryVars

\* await asyncio.sleep(delay) ends, or asyncio.wait_for cancels the task at
\* it; delay = min(delay * config.exponential_base, config.max_delay)
retry_sleep(cancelled) ==
    /\ retry.pc = "sleep"
    /\ retry' =
         IF cancelled
         THEN StepCancelled([retry EXCEPT
                  !.outcome = [kind |-> "raised", exc |-> "CancelledError", of |-> 0]])
         ELSE [retry EXCEPT !.pc = "retry",
                            !.delay = Min(retry.delay * exponential_base, max_delay)]
    /\ UNCHANGED nonRetryVars

\* the for loop is over without a return or a raise:
\* if last_exception is not None: raise last_exception
\* raise Exception("Retry failed with no exception recorded")
retry_exhausted ==
    /\ retry.pc = "retry"
    /\ retry.attempt >= retry.retry_count
    /\ retry' = StepFailed([retry EXCEPT
                    !.outcome = [kind |-> "raised", exc |-> "Exception",
                                 of |-> retry.last_exception]])
    /\ UNCHANGED nonRetryVars

RetryNext ==
    \/ validate_task
    \/ step_begin
    \/ \E o \in CallOutcomes : retry_attempt(o)
    \/ \E cancelled \in BOOLEAN : retry_sleep(cancelled)
    \/ retry_exhausted

(***************************************************************************)
(* TaskValidator.validate_step (utils/validators.py) and the dispatch of   *)
(* execute_intelligent_step (core/executor.py) on one step                 *)
(*                                                                         *)
(* A step is its 'action' ("absent" when the key is missing), the set of   *)
(* parameter keys it carries, and whether the values of the keys it        *)
(* carries pass the validator's value checks.                              *)
(***************************************************************************)
\* TaskValidator.VALID_ACTIONS
VALID_ACTIONS ==
    {"navigate", "click", "type", "wait", "screenshot",
     "intelligent_click", "intelligent_type", "intelligent_extract",
     "intelligent_wait"}

\* TaskValidator.REQUIRED_PARAMS.get(action, [])
REQUIRED_PARAMS(action) ==
    CASE action = "navigate" -> {"url"}
      [] action = "click" -> {"selector"}
      [] action = "type" -> {"selector", "text"}
      [] action = "wait" -> {"seconds"}
      [] action = "intelligent_click" -> {"description"}
      [] action = "intelligent_type" -> {"description", "text"}
      [] action = "intelligent_extract" -> {"description"}
      [] action = "intelligent_wait" -> {"condition"}
      [] OTHER -> {}

\* the actions _plan_task's prompt lists under AVAILABLE ACTIONS and
\* TAB MANAGEMENT
PlannerActions ==
    {"navigate", "intelligent_type", "intelligent_click", "intelligent_wait",
     "intelligent_extract", "screenshot", "wait", "scroll", "final_answer",
     "hover", "select_option", "new_tab", "switch_tab", "close_tab",
     "list_tabs"}

\* the actions needing self.tab_manager in execute_intelligent_step
TabActions == {"new_tab", "switch_tab", "close_tab", "list_tabs"}

\* the actions execute_intelligent_step has a branch for
DispatchedActions ==
    {"intelligent_click", "intelligent_type", "intelligent_extract",
     "intelligent_wait", "navigate", "click", "type", "wait", "scroll",
     "final_answer", "screenshot", "hover", "select_option"} \cup TabActions

\* the parameters the planner's prompt shows with each action it lists and
\* the executor's handler reads without a default
PromptParams(action) ==
    CASE action \in VALID_ACTIONS -> REQUIRED_PARAMS(action)
      [] action \in {"hover", "select_option"} -> {"description"}
      [] OTHER -> {}

\* an action no branch handles, and the keys a step may carry
StepActions == DispatchedActions \cup {"drag", "absent"}
ParamNames == {"url", "selector", "text", "seconds", "description", "condition"}

ValidationIdle ==
    validation = [pc |-> "idle"]

ValidationInit ==
    \E a \in StepActions, ps \in SUBSET ParamNames, wf, tm \in BOOLEAN :
        validation = [pc |-> "step", action |-> a, params |-> ps,
                      well_formed |-> wf, tab_manager |-> tm,
                      validated |-> "none", dispatch |-> "none"]

\* validate_step: ValidationError ("rejected") or a normal return ("accepted")
StepAccepted(action, params, well_formed) ==
    /\ action # "absent"
    /\ action \in VALID_ACTIONS
    /\ REQUIRED_PARAMS(action) \subseteq params
    /\ well_formed

\* what execute_intelligent_step does with the step
Dispatch(action, params, tab_manager) ==
    IF action = "absent" THEN "KeyError"
    ELSE IF action \notin DispatchedActions THEN "Unknown action"
    ELSE IF action \in TabActions /\ ~tab_manager THEN "Tab manager not available"
    ELSE "handled"

validate_step ==
    /\ validation.pc = "step"
    /\ validation.validated = "none"
    /\ validation' =
         [validation EXCEPT !.validated =
             IF StepAccepted(validation.action, validation.params,
                             validation.well_formed)
             THEN "accepted" ELSE "rejected"]
    /\ UNCHANGED nonValidationVars

execute_intelligent_step ==
    /\ validation.pc = "step"
    /\ validation.dispatch = "none"
    /\ validation' =
         [validation EXCEPT !.dispatch =
             Dispatch(validation.action, validation.params,
                      validation.tab_manager)]
    /\ UNCHANGED nonValidationVars

ValidationNext ==
    \/ validate_step
    \/ execute_intelligent_step

(***************************************************************************)
(* The page reference of run_dynamic's loop (core/planner.py) next to the  *)
(* TabManager the executor's tab actions act on                            *)
(*                                                                         *)
(* A page is named by the index its tab was registered under; -1 is None.  *)
(* An action is "new_tab", "switch_tab", "close_tab" or "other" (one that  *)
(* calls no TabManager method).                                            *)
(***************************************************************************)
LoopActions == {"new_tab", "switch_tab", "close_tab", "other"}

\* TabManager.active_page: self.tabs.get(self.active_tab_index)
active_page(ts, idx) == IF idx \in Range(ts) THEN idx ELSE -1

\* no run uses a TabManager
LoopIdle ==
    loop = [pc |-> "idle"]

\* page = browser_instance.page; tab_manager = TabManager(context, initial_page=page)
LoopInit ==
    /\ TabInit
    /\ tabs = <<0>>
    /\ \E n \in 1..MaxSteps :
          loop = [pc |-> "observe", page |-> 0, max_steps |-> n,
                  step_count |-> 0, next_action |-> "none", action |-> "none"]

\* while step_count < self.max_steps: the state of page is captured and
\* _decide_next_action answers with decided; _execute_with_correction runs it
\* on page and, when it raises, replaces it by the corrected action the
\* completion service answers with (a TabManager action does not raise: the
\* executor turns its failure into a result string)
loop_decide(decided, executed) ==
    /\ loop.pc = "observe"
    /\ loop.step_count < loop.max_steps
    /\ decided # "other" => executed = decided
    /\ loop' = [loop EXCEPT !.pc = "execute",
                            !.step_count = @ + 1,
                            !.next_action = decided,
                            !.action = executed]
    /\ UNCHANGED tabVars
    /\ UNCHANGED nonLoopVars

\* if tab_manager and next_action.get('action') in ['switch_tab', 'new_tab']:
\*     page = tab_manager.active_page
UpdatesPage(decided) == decided \in {"switch_tab", "new_tab"}

\* the page reference after the step, given the TabManager after it
PageAfter(ts, idx) ==
    [loop EXCEPT !.pc = "observe",
                 !.page = IF UpdatesPage(loop.next_action)
                          THEN active_page(ts, idx) ELSE @]

\* the executor runs the action and the loop goes on to its next iteration
loop_new_tab(has_url, page_ok, goto_ok) ==
    /\ loop.pc = "execute" /\ loop.action = "new_tab"
    /\ new_tab(has_url, page_ok, goto_ok)
    /\ loop' = PageAfter(tabs', active_tab_index')

loop_switch_tab(tab_index, front_ok, title_ok) ==
    /\ loop.pc = "execute" /\ loop.action = "switch_tab"
    /\ switch_tab(tab_index, front_ok, title_ok)
    /\ loop' = PageAfter(tabs', active_tab_index')

loop_close_tab(arg, close_ok, front_ok) ==
    /\ loop.pc = "execute" /\ loop.action = "close_tab"
    /\ close_tab(arg, close_ok, front_ok)
    /\ loop' = PageAfter(tabs', active_tab_index')

loop_other ==
    /\ loop.pc = "execute" /\ loop.action = "other"
    /\ loop' = PageAfter(tabs, active_tab_index)
    /\ UNCHANGED tabVars
    /\ UNCHANGED nonLoopVars

LoopNext ==
    \/ \E decided, executed \in LoopActions : loop_decide(decided, executed)
    \/ \E has_url, page_ok, goto_ok \in BOOLEAN : loop_new_tab(has_url, page_ok, goto_ok)
    \/ \E i \in TabIndices, front_ok, title_ok \in BOOLEAN :
            loop_switch_tab(i, front_ok, title_ok)
    \/ \E arg \in TabArgs, close_ok, front_ok \in BOOLEAN :
            loop_close_tab(arg, close_ok, front_ok)
    \/ loop_other

(***************************************************************************)
(* Specifications: one subsystem moves, the others stay as constructed.    *)
(***************************************************************************)
PoolIdle == PoolInit /\ max_browsers = 1 /\ ShutdownIdle

Init == PoolInit /\ ShutdownIdle /\ TabIdle /\ AgentIdle /\ TaskIdle /\ FinderIdle /\ ExecIdle /\ VisionIdle /\ ContextIdle /\ RetryIdle /\ ValidationIdle /\ LoopIdle
Next == PoolNext
Spec == Init /\ [][Next]_vars

TabSpecInit == TabInit /\ PoolIdle /\ AgentIdle /\ TaskIdle /\ FinderIdle /\ ExecIdle /\ VisionIdle /\ ContextIdle /\ RetryIdle /\ ValidationIdle /\ LoopIdle
TabSpec == TabSpecInit /\ [][TabNext]_vars

\* one run: of the dynamic agent, or of a task under wait_for
RunSpecInit ==
    /\ PoolIdle /\ TabIdle /\ FinderIdle /\ ExecIdle /\ VisionIdle /\ ContextIdle /\ RetryIdle /\ ValidationIdle /\ LoopIdle
    /\ \/ AgentInit /\ TaskIdle
       \/ AgentIdle /\ TaskInit
RunNext == AgentNext \/ TaskNext
RunSpec == RunSpecInit /\ [][RunNext]_vars

\* a run whose awaited calls (the executor, the completion service, the pool)
\* all end, by a result or by an exception: the coroutine takes its next step
RunFairness == WF_vars(AgentNext) /\ WF_vars(TaskNext)
RunFairSpec == RunSpecInit /\ [][RunNext]_vars /\ RunFairness

FinderSpecInit ==
    FinderInit /\ PoolIdle /\ TabIdle /\ AgentIdle /\ TaskIdle /\ ExecIdle /\ VisionIdle /\ ContextIdle /\ RetryIdle /\ ValidationIdle /\ LoopIdle
FinderSpec == FinderSpecInit /\ [][FinderNext]_vars

\* _fallback_element_matching called on its own
FallbackSpecInit ==
    FallbackInit /\ PoolIdle /\ TabIdle /\ AgentIdle /\ TaskIdle /\ ExecIdle /\ VisionIdle /\ ContextIdle /\ RetryIdle /\ ValidationIdle /\ LoopIdle
FallbackSpec == FallbackSpecInit /\ [][fallback_call]_vars

\* several runs of one agent object, one after the other
RerunSpecInit ==
    /\ AgentInit /\ TaskIdle
    /\ PoolIdle /\ TabIdle /\ FinderIdle /\ ExecIdle /\ VisionIdle /\ ContextIdle /\ RetryIdle /\ ValidationIdle /\ LoopIdle
RerunNext == AgentNext \/ run_again
RerunSpec == RerunSpecInit /\ [][RerunNext]_vars

\* the TaskContext of one run
ContextSpecInit ==
    /\ ContextInit /\ PoolIdle /\ TabIdle /\ AgentIdle /\ TaskIdle /\ FinderIdle
    /\ ExecIdle /\ VisionIdle /\ RetryIdle /\ ValidationIdle /\ LoopIdle
ContextSpec == ContextSpecInit /\ [][ContextNext]_vars

\* one call of _find_with_vision
VisionSpecInit ==
    /\ VisionInit /\ PoolIdle /\ TabIdle /\ AgentIdle /\ TaskIdle /\ FinderIdle
    /\ ExecIdle /\ ContextIdle /\ RetryIdle /\ ValidationIdle /\ LoopIdle
VisionSpec == VisionSpecInit /\ [][VisionNext]_vars

\* one description-targeted step of the executor
ExecSpecInit ==
    /\ ExecInit /\ PoolIdle /\ TabIdle /\ AgentIdle /\ TaskIdle /\ FinderIdle
    /\ VisionIdle /\ ContextIdle /\ RetryIdle /\ ValidationIdle /\ LoopIdle
ExecSpec == ExecSpecInit /\ [][ExecNext]_vars

OthersIdle ==
    /\ PoolIdle /\ AgentIdle /\ TaskIdle /\ FinderIdle /\ ExecIdle /\ VisionIdle
    /\ ContextIdle

\* the step loop of one submitted task
RetrySpecInit == RetryInit /\ OthersIdle /\ TabIdle /\ ValidationIdle /\ LoopIdle
RetrySpec == RetrySpecInit /\ [][RetryNext]_vars

\* one step given to the validator and to the executor
ValidationSpecInit == ValidationInit /\ OthersIdle /\ TabIdle /\ RetryIdle /\ LoopIdle
ValidationSpec == ValidationSpecInit /\ [][ValidationNext]_vars

\* the loop of one run and its TabManager
LoopSpecInit == LoopInit /\ OthersIdle /\ RetryIdle /\ ValidationIdle
LoopSpec == LoopSpecInit /\ [][LoopNext]_vars

\* the scheduling of a get_browser_instance call: the event loop resumes a
\* ready coroutine (weak fairness of the steps that wait for nothing but
\* time or an awaited browser operation, which end: the launch has a timeout
\* and bounded retries, the closes run under wait_for); asyncio.Lock wakes
\* its waiters in FIFO order, so a caller waiting for the lock gets it
\* (strong fairness of the entry)
AcquireFairness ==
    \A c \in Callers :
        /\ WF_vars(RaiseUnavailable(c))
        /\ SF_vars(EnterAndCleanup(c))
        /\ WF_vars(Scan(c))
        /\ WF_vars(\E ok \in BOOLEAN : CreateDone(c, ok))
        /\ WF_vars(Sleep(c))

\* the pool with callers that release without had_error (the error counts
\* are covered by Spec)
AcquireNext ==
    \/ \E ok \in BOOLEAN : initialize(ok)
    \/ \E c \in Callers : GetStart(c)
    \/ \E c \in Callers : RaiseUnavailable(c)
    \/ \E c \in Callers : EnterAndCleanup(c)
    \/ \E c \in Callers : Scan(c)
    \/ \E c \in Callers, ok \in BOOLEAN : CreateDone(c, ok)
    \/ \E c \in Callers : Sleep(c)
    \/ \E c \in Callers : release_browser_instance(c, FALSE)
    \/ \E i \in Ids : Disconnect(i)
FairSpec == Init /\ [][AcquireNext]_vars /\ AcquireFairness

\* the pool with cleanup() called while callers acquire and release
ShutdownSpecInit ==
    PoolInit /\ ShutdownInit /\ TabIdle /\ AgentIdle /\ TaskIdle /\ FinderIdle /\ ExecIdle /\ VisionIdle /\ ContextIdle /\ RetryIdle /\ ValidationIdle /\ LoopIdle
ShutdownSpecNext == ShutdownNext \/ AcquireNext
ShutdownSpec == ShutdownSpecInit /\ [][ShutdownSpecNext]_vars

(***************************************************************************)
(* Properties of the pool, checked under Spec.                             *)
(***************************************************************************)
\* every pooled instance is in use and the pool is full
AtCapacity ==
    /\ Len(instances) = max_browsers
    /\ \A i \in Range(instances) : in_use[i]

\* C1: no session is held by two callers at once: between the moment
\* get_browser_instance returns an instance to a caller and that caller's
\* release, the instance is marked in use and no other caller holds it.
C1_PoolExclusive ==
    \A c1 \in Callers :
        held[c1] # 0 =>
            /\ in_use[held[c1]]
            /\ \A c2 \in Callers : c2 # c1 => held[c2] # held[c1]

\* a caller scans the full pool while another caller holds a session
C1_Witness ==
    \E c1, c2 \in Callers :
        /\ c1 # c2
        /\ held[c1] # 0
        /\ pc[c2] = "scan"
        /\ Len(instances) = max_browsers

\* C2: the pool never lists more than max_browsers sessions.
C2_PoolCapacity == Len(instances) <= max_browsers

\* the pool is full, and a caller found nothing and waits
C2_Witness ==
    /\ AtCapacity
    /\ \E c \in Callers : pc[c] = "sleep"

\* C4: a session released with had_error three times in a row is out of the
\* instance list, was closed, and no caller holds it.
C4_EvictedAfterThreeErrors ==
    \A i \in struck_out :
        /\ i \notin Range(instances)
        /\ i \in closed
        /\ \A c \in Callers : held[c] # i

\* a session was evicted after three errored releases, and a later
\* get_browser_instance returned another session
C4_Witness ==
    \E i \in struck_out :
        \E c \in Callers : held[c] # 0 /\ held[c] > i

\* C5: (a) a scan of a full pool whose sessions are all in use creates
\* nothing, returns nothing and sends the caller to sleep; (b) the wait loop
\* raises BrowserInstanceUnavailableError exactly when the timeout has
\* elapsed; (c) a scan that finds an idle healthy session returns a session
\* without creating one.
C5_ExhaustedThenReleased ==
    [][\A c \in Callers :
        /\ (pc[c] = "scan" /\ pc'[c] # "scan" /\ AtCapacity) =>
              /\ instances' = instances
              /\ instance_counter' = instance_counter
              /\ held'[c] = 0
              /\ pc'[c] = "sleep"
        /\ (pc[c] = "loop" /\ pc'[c] # "loop") =>
              (pc'[c] = "idle" <=> elapsed[c] > AcquireTimeout)
        /\ (pc[c] = "scan" /\ pc'[c] # "scan"
              /\ \E i \in Range(instances) :
                    ~in_use[i] /\ error_count[i] < 3 /\ connected[i]) =>
              /\ held'[c] \in Range(instances)
              /\ pc'[c] = "holding"
              /\ instances' = instances
              /\ instance_counter' = instance_counter
      ]_vars

\* a caller's timeout has elapsed at the top of the wait loop while every
\* session of the full pool is still held by another caller
C5_Witness ==
    \E c \in Callers :
        /\ pc[c] = "loop"
        /\ elapsed[c] > AcquireTimeout
        /\ AtCapacity
        /\ Len(instances) >= 1

(***************************************************************************)
(* Properties of the tab manager, checked under TabSpec.                   *)
(***************************************************************************)
\* C6: close_tab, with or without an index, called while exactly one tab is
\* registered returns a failure and leaves the tab map, the tab counter and
\* active_tab_index as they were, and closes no page.
C6_SoleTabCloseRefused ==
    [][\A arg \in TabArgs, close_ok, front_ok \in BOOLEAN :
          (Len(tabs) = 1 /\ close_tab(arg, close_ok, front_ok)) =>
              /\ tab_result' = "failure"
              /\ tabs' = tabs
              /\ active_tab_index' = active_tab_index
              /\ tab_counter' = tab_counter
              /\ page_open' = page_open
      ]_vars

\* close_tab was refused on the sole registered tab, which is the active one
C6_Witness ==
    /\ Len(tabs) = 1
    /\ tabs[1] = active_tab_index
    /\ tab_result = "failure"
    /\ tabs[1] \in page_open
    /\ tab_counter >= 2

(***************************************************************************)
(* Properties of a run, checked under RunSpec.                             *)
(***************************************************************************)
\* C3: a run of run_dynamic or of _execute_single_task that acquired a
\* session has called release_browser_instance for it exactly once by the
\* time it has ended, whichever way it ended, never calls it twice, and a
\* run whose acquisition failed never calls it.
C3_ReleasedExactlyOnce ==
    /\ release_calls <= 1
    /\ task_release_calls <= 1
    /\ (release_calls = 1 => browser_instance)
    /\ (task_release_calls = 1 => task_browser_instance)
    /\ (agent_pc = "done" =>
            release_calls = (IF browser_instance THEN 1 ELSE 0))
    /\ (task_pc = "done" =>
            task_release_calls = (IF task_browser_instance THEN 1 ELSE 0))

\* a run that acquired its session and then ended in the except handler has
\* released the session once
C3_Witness ==
    /\ agent_pc = "done"
    /\ browser_instance
    /\ result.error
    /\ release_calls = 1
    /\ ~session_in_use

\* C8: the loop never starts a step beyond max_steps, and a run that
\* entered the loop and whose decisions were all non-terminal actions ends
\* with the step-limit verdict, success false, steps_taken equal to
\* max_steps and max_steps steps recorded.
C8_StepLimitReached ==
    /\ step_count <= max_steps
    /\ (agent_pc \in {"finally", "done"} /\ task_context /\ only_actions) =>
          /\ result.returned
          /\ ~result.success
          /\ ~result.error
          /\ result.steps_taken = max_steps
          /\ summary = "step_limit"
          /\ Len(action_history) = max_steps

\* a run of more than one step ended at the step limit after non-terminal
\* actions only
C8_Witness ==
    /\ agent_pc = "done"
    /\ task_context
    /\ only_actions
    /\ max_steps > 1
    /\ result.steps_taken = max_steps
    /\ summary = "step_limit"

\* C9: a step whose last execution succeeded after every earlier execution
\* failed and was answered with a corrected action is recorded with status
\* "success" and attempts equal to the number of executions, which is at
\* most max_retries + 1.
C9_AttemptsCountExecutions ==
    \A k \in 1..Len(action_history) :
        LET h == action_history[k]
        IN  (h.last_ok /\ h.corrections = h.executions - 1) =>
                /\ h.status = "success"
                /\ h.attempts = h.executions
                /\ h.executions <= max_retries + 1

\* a step failed once and succeeded on the corrected retry
C9_Witness ==
    \E k \in 1..Len(action_history) :
        /\ action_history[k].executions = 2
        /\ action_history[k].corrections = 1
        /\ action_history[k].status = "success"
        /\ action_history[k].attempts = 2

\* C10: the result of an unsuccessful run has success false, an error or
\* reason field, the history and, when the run got as far as creating its
\* TaskContext, the extracted data; every run that ends has returned a
\* result.
C10_UnsuccessfulResultExplained ==
    /\ (agent_pc \in {"finally", "done"} => result.returned)
    /\ (result.returned /\ ~result.success) =>
          /\ result.error
          /\ result.history = action_history
          /\ (task_context => result.has_extracted_data)
          /\ (result.has_extracted_data =>
                  result.extracted_data = extracted_data)

(***************************************************************************)
(* Properties of the element finder, checked under FinderSpec.             *)
(***************************************************************************)
\* C7: when no LLM answer selected a valid candidate and the vision tier
\* did not succeed, but some enumerated element has a positive rule-based
\* score, find_element_intelligently returns success with confidence
\* "medium" or "low"; and whenever it returns a failure, the final
\* rule-based tier has scored every enumerated element.
C7_RuleBasedTierReached ==
    finder_pc = "done" =>
        /\ (/\ ~structural_valid
            /\ ~vision_succeeded
            /\ \E k \in 1..Len(all_elements) :
                    FallbackScore(all_elements[k]) > 0)
              => /\ finder_result.success
                 /\ finder_result.confidence \in {"medium", "low"}
        /\ ~finder_result.success =>
              \A k \in 1..Len(all_elements) : k \in scored_all

\* the LLM was asked about the relevance-filtered candidates and selected
\* nothing, the rule-based pass over those candidates found nothing, and the
\* final rule-based tier found an element among all the elements
C7_Witness ==
    /\ finder_pc = "done"
    /\ ~structural_valid
    /\ ~vision_succeeded
    /\ "relevance" \in Range(tiers_run)
    /\ scored_all # {}
    /\ finder_result.success
    /\ finder_result.method = "rule"
    /\ finder_result.confidence = "low"

(***************************************************************************)
(* Terminal states of a run, checked under RunSpec.                        *)
(***************************************************************************)
\* the loop was left because _decide_next_action returned None
DecisionFailed == last_decision = "none"

\* the loop was left because a step result had status critical_failure
CriticalFailure ==
    /\ last_decision = "action"
    /\ Len(action_history) > 0
    /\ action_history[Len(action_history)].status = "critical_failure"

\* C11: a run that went through the loop and released its session passed
\* had_error=true when it ended in a decision failure or a critical
\* failure, and had_error=false when it ended with the goal achieved or at
\* the step limit.
C11_ErrorFlagFollowsTerminalState ==
    (agent_pc = "done" /\ release_calls = 1 /\ result.returned /\ ~result.error) =>
        agent_had_error =
            (IF DecisionFailed \/ CriticalFailure THEN "true" ELSE "false")

\* C15: once the decision step has returned no action at step k, the run
\* is over (no further decision is made), nothing was executed or recorded
\* for step k, one decision was requested per step, and the verdict is the
\* failure one, not the step-limit one.
C15_DecisionFailureStopsDistinctly ==
    DecisionFailed =>
        /\ agent_pc \in {"finally", "done"}
        /\ result.returned
        /\ ~result.success
        /\ result.steps_taken = step_count
        /\ Len(action_history) = step_count - 1
        /\ decisions_made = step_count
        /\ summary = "failed"

\* C16: a goal_achieved or final_answer decision ends the loop in the same
\* step with a result whose success is true, without an execution and
\* without a history entry; a final_answer stores the answer given in the
\* TaskContext and in the result; no decision follows.
C16_TerminalDecisionSucceeds ==
    /\ [][\A d \in {"goal_achieved", "final_answer"}, a \in AnswerValues :
            decide(d, a) =>
                /\ agent_pc' = "finally"
                /\ result'.returned
                /\ result'.success
                /\ action_history' = action_history
                /\ executions' = executions
                /\ (d = "final_answer" =>
                        final_answer' = a /\ result'.final_answer = a)
         ]_vars
    /\ [](last_decision \in {"goal_achieved", "final_answer"} =>
            agent_pc \in {"finally", "done"})

C12_NeverClosedInUse == \A i \in Ids : i \in closed => ~in_use[i]

\* C20: cleanup() builds a close task for every instance in the list when it
\* is called, never raises whatever the outcome of the closes and of
\* playwright.stop(), and at its return the list is empty and the pool is
\* marked uninitialized.
C20_CleanupBestEffort ==
    /\ [][(cleanup_pc # "closing" /\ cleanup_pc' = "closing") =>
            Range(instances) \subseteq close_pending']_vars
    /\ [](cleanup_pc # "raised")
    /\ [](cleanup_pc = "stopping" => close_pending = {})
    /\ [][(cleanup_pc = "stopping" /\ cleanup_pc' # "stopping") =>
            /\ cleanup_pc' = "returned"
            /\ instances' = <<>>
            /\ ~initialized']_vars

\* cleanup() has returned although the close of an instance failed or timed
\* out (the instance is gone from the pool with its browser still connected),
\* and another instance was closed
C20_Witness ==
    /\ cleanup_pc = "returned"
    /\ instances = <<>>
    /\ ~initialized
    /\ \E i \in Ids : connected[i] /\ i \notin closed
    /\ \E i \in Ids : i \in closed

(***************************************************************************)
(* Termination of an acquisition, checked under FairSpec.                  *)
(***************************************************************************)
\* a caller is inside get_browser_instance
Acquiring(c) == pc[c] \in {"loop", "scan", "creating", "sleep"}

\* the bound on created instances stops a caller that holds the lock
CreationCapped ==
    /\ instance_counter >= MaxCreated
    /\ \E c \in Callers :
        pc[c] = "scan" /\ FirstAvailable = 0 /\ UnderLimit
        /\ playwright # "none"

C14_CreationFailureRaised ==
    [][\A c \in Callers :
        (pc[c] = "creating" /\ pc'[c] # "creating" /\ held'[c] = 0) =>
            pc'[c] = "idle"]_vars

(***************************************************************************)
(* The tab map, checked under TabSpec.                                     *)
(***************************************************************************)
\* C19: once a tab has been registered (the TabManager was created with an
\* initial page), the tab map is never empty, whatever new_tab, switch_tab,
\* close_tab, close_all_except_active and page-close events follow.
C19_TabMapNeverEmpty == tab_counter >= 1 => Len(tabs) >= 1

(***************************************************************************)
(* Description-targeted steps, checked under ExecSpec.                     *)
(***************************************************************************)
\* C18: a description-targeted step that ended because the element could not
\* be resolved ended by an exception, not by a returned string, and the
\* exception names the step's original description.
C18_UnresolvedElementRaises ==
    (exec_pc = "done" /\ find_failed) =>
        exec_result.kind = "raised" /\ exec_result.names = "original"

(***************************************************************************)
(* The tiers of the resolver, checked under FinderSpec.                    *)
(***************************************************************************)
\* the name a failure result gives the strategy of a tier
StrategyName(t) == IF t = "rule" THEN "full scan" ELSE t

\* the strategies find_element_intelligently attempted, in order
AttemptedStrategies == [k \in 1..Len(tiers_run) |-> StrategyName(tiers_run[k])]

\* C21: every failure find_element_intelligently returns carries the number
\* of elements considered (the elements enumerated on the page) and the
\* list of the strategies that were attempted in this call.
C21_FailureCarriesCountAndTiers ==
    (finder_pc = "done" /\ ~finder_result.success) =>
        /\ finder_result.has_count
        /\ finder_result.scanned = Len(all_elements)
        /\ finder_result.strategies = AttemptedStrategies

\* C25: a rule-based result is returned only by the last tier, after the
\* two structural strategies and, when the visual tier is enabled, after the
\* visual tier has been tried: an LLM answer that selects no valid candidate
\* moves on to the next tier.
C25_TiersInOrder ==
    (finder_pc = "done" /\ finder_result.success
        /\ finder_result.method = "rule") =>
        /\ tiers_run[Len(tiers_run)] = "rule"
        /\ vision_enabled => "vision" \in Range(tiers_run)

C22_SleeperHoldsNoLock ==
    /\ \A c \in Callers : pc[c] = "sleep" => lock # c
    /\ lock # 0 => pc[lock] \in {"scan", "creating"}

\* a caller sleeps at capacity while the other one, holding the only
\* instance, can enter the lock for its release
C22_Witness ==
    \E c, d \in Callers :
        /\ pc[c] = "sleep"
        /\ Len(instances) = max_browsers
        /\ pc[d] = "holding"
        /\ lock = 0

\* C23: a release of an instance that is unhealthy (its error count, the
\* error of this release included, has reached 3, or its browser is not
\* connected) removes it from the list and closes it.
C23_UnhealthyReleaseEvicts ==
    [][\A c \in Callers :
          (/\ pc[c] = "holding"
           /\ pc'[c] = "idle"
           /\ \/ error_count'[held[c]] >= 3
              \/ ~connected[held[c]])
          => /\ held[c] \notin Range(instances')
             /\ held[c] \in closed']_vars

\* C24: the instance a scan hands out for reuse has fewer than 3 errors and
\* a connected browser at that moment, and the purge that opens the scan
\* removes from the list and closes every idle unhealthy instance.
C24_OnlyHealthyReused ==
    [][\A c \in Callers :
          /\ (pc[c] = "scan" /\ pc'[c] = "holding")
                => /\ error_count[held'[c]] < 3
                   /\ connected[held'[c]]
                   /\ ~in_use[held'[c]]
          /\ (pc[c] = "loop" /\ pc'[c] = "scan")
                => \A i \in Range(instances) :
                      (~in_use[i] /\ (error_count[i] >= 3 \/ ~connected[i]))
                         => i \notin Range(instances') /\ i \in closed']_vars

\* a caller is about to scan a list whose idle disconnected instance was
\* purged, another idle instance being there to reuse
C24_Witness ==
    \E c \in Callers :
        /\ pc[c] = "scan"
        /\ lock = c
        /\ \E j \in closed : error_count[j] < 3
        /\ \E i \in Range(instances) :
              ~in_use[i] /\ connected[i] /\ error_count[i] < 3

(***************************************************************************)
(* The active tab after a close, checked under TabSpec.                    *)
(***************************************************************************)
\* C27: a close_tab that reports success leaves active_tab_index at the
\* lowest index still registered when it closed the active tab, and leaves
\* it unchanged when it closed another tab.
C27_LowestRemainingActive ==
    [][\A arg \in TabArgs, close_ok, front_ok \in BOOLEAN :
          (close_tab(arg, close_ok, front_ok) /\ tab_result' = "success"
           /\ tabs' # tabs)
          => IF active_tab_index = (IF arg = -1 THEN active_tab_index ELSE arg)
             THEN /\ active_tab_index' \in Range(tabs')
                  /\ \A j \in Range(tabs') : active_tab_index' <= j
             ELSE active_tab_index' = active_tab_index]_vars

\* three tabs were opened and the last, active one was closed: tab 0 is
\* active again, tab 1 being registered as well
C27_Witness ==
    /\ tabs = <<0, 1>>
    /\ tab_counter = 3
    /\ active_tab_index = 0
    /\ page_open = {0, 1}
    /\ tab_result = "success"

(***************************************************************************)
(* The history of a run's result, checked under RerunSpec.                 *)
(***************************************************************************)
\* C26: the history of the result a run returns holds the entries recorded
\* during that run and no others: as many as self.action_history has gained
\* since the run began.
C26_HistoryOfThisRun ==
    result.returned =>
        Len(result.history) = Len(action_history) - history_at_start

(***************************************************************************)
(* The TaskContext of a run, checked under ContextSpec.                    *)
(***************************************************************************)
\* C30: no step changes or removes the value stored under a key of
\* extracted_data, and every step leaves visited_urls and screenshots as
\* they were or with entries added at the end.
C30_ContextAppendOnly ==
    [][/\ \A k \in DataKeys :
            context_extracted_data[k] # NoData
               => context_extracted_data'[k] = context_extracted_data[k]
       /\ Len(visited_urls) <= Len(visited_urls')
       /\ SubSeq(visited_urls', 1, Len(visited_urls)) = visited_urls
       /\ Len(screenshots) <= Len(screenshots')
       /\ SubSeq(screenshots', 1, Len(screenshots)) = screenshots]_vars

(***************************************************************************)
(* The error count of a session, checked under Spec.                       *)
(***************************************************************************)
\* C33: no step lowers the error_count of a session; a release with
\* had_error false leaves it as it is and one with had_error true adds one;
\* a session in the list has fewer than 3 errors, and one whose count has
\* reached 3, error-free releases in between or not, is out of the list and
\* was closed.
C33_ErrorCountOnlyGrows ==
    /\ [][\A i \in Ids : error_count'[i] >= error_count[i]]_vars
    /\ [][\A c \in Callers :
            /\ release_browser_instance(c, FALSE)
                  => error_count'[held[c]] = error_count[held[c]]
            /\ release_browser_instance(c, TRUE)
                  => error_count'[held[c]] = error_count[held[c]] + 1]_vars
    /\ [](\A i \in Ids :
            /\ i \in Range(instances) => error_count[i] < 3
            /\ error_count[i] >= 3 => i \notin Range(instances) /\ i \in closed)

\* a session was evicted at its third errored release although its errored
\* releases were not consecutive: it never had three in a row
C33_Witness ==
    \E i \in Ids :
        /\ error_count[i] = 3
        /\ i \in closed
        /\ i \notin struck_out

(***************************************************************************)
(* The active tab and failed openings, checked under TabSpec.              *)
(***************************************************************************)
\* C35: whenever at least one tab is registered, active_tab_index is the
\* index of a registered tab.
C35_ActiveTabRegistered ==
    Len(tabs) >= 1 => active_tab_index \in Range(tabs)

\* C36: a new_tab that returns a failure leaves the tab map and
\* active_tab_index as they were before the call.
C36_FailedNewTabChangesNothing ==
    [][\A has_url, page_ok, goto_ok \in BOOLEAN :
          (new_tab(has_url, page_ok, goto_ok) /\ tab_result' = "failure")
             => tabs' = tabs /\ active_tab_index' = active_tab_index]_vars

(***************************************************************************)
(* The executions of one step, checked under RunFairSpec.                  *)
(***************************************************************************)
\* C32: for one step _execute_with_correction calls the executor at most
\* max_retries + 1 times, and once when self-correction is off; it ends; and
\* the attempts value recorded for the step is the number of executor calls
\* made for it.
C32_BoundedExecutions ==
    /\ [](agent_pc \in {"execute", "correct"} =>
            /\ executions <= max_retries + 1
            /\ agent_pc = "execute" => executions <= max_retries
            /\ ~enable_self_correction => executions <= 1)
    /\ [](\A k \in 1..Len(action_history) :
            /\ action_history[k].attempts = action_history[k].executions
            /\ action_history[k].executions >= 1
            /\ action_history[k].executions <= max_retries + 1
            /\ ~enable_self_correction => action_history[k].executions = 1)
    /\ (agent_pc = "execute" ~> agent_pc \in {"loop", "finally", "done"})

\* a step used every attempt: it was executed max_retries + 1 = 3 times, two
\* corrections in between
C32_Witness ==
    \E k \in 1..Len(action_history) :
        /\ max_retries = 2
        /\ action_history[k].executions = 3
        /\ action_history[k].corrections = 2
        /\ action_history[k].attempts = 3

(***************************************************************************)
(* The counts of a run's result, checked under RunSpec.                    *)
(***************************************************************************)
\* C39: the result of a run on a fresh agent has
\* len(history) <= steps_taken <= max_steps, at most one step more taken
\* than recorded, and the k-th history entry carries step index k.
C39_StepsAndHistoryAgree ==
    result.returned =>
        /\ Len(result.history) <= result.steps_taken
        /\ result.steps_taken <= max_steps
        /\ result.steps_taken - Len(result.history) <= 1
        /\ \A k \in 1..Len(result.history) : result.history[k].step = k

\* a run recorded one step and ended in its second step on a goal_achieved
\* decision: two steps taken, one entry
C39_Witness ==
    /\ result.returned
    /\ result.success
    /\ result.steps_taken = 2
    /\ Len(result.history) = 1
    /\ result.history[1].step = 1

(***************************************************************************)
(* The pool after cleanup(), checked under ShutdownSpec.                   *)
(***************************************************************************)
\* C34: from the return of cleanup() until initialize() is called again the
\* instance list stays empty: no get_browser_instance call, one that was
\* waiting in its loop when cleanup ran included, adds a session.
C34_NothingAddedAfterCleanup ==
    (cleanup_pc = "returned" /\ ~initialized) => instances = <<>>

(***************************************************************************)
(* retry_async and the step loop, checked under RetrySpec.                 *)
(***************************************************************************)
\* C31: retry_async invokes the function at most max_attempts times; every
\* invocation before the latest one failed with a retryable exception, so a
\* success or a non-retryable exception ends the call at once, with that
\* result or that exception; a retryable exception is raised to the caller
\* only from the max_attempts-th invocation, and is raised once that
\* invocation failed.
C31_RetryAsyncContract ==
    retry.pc \notin {"idle", "submitted", "rejected"} =>
        LET calls == Len(retry.call_outcomes)
        IN  /\ calls <= retry.retry_count
            /\ \A k \in 1..(calls - 1) : retry.call_outcomes[k] = "Exception"
            /\ (calls >= 1 /\ retry.call_outcomes[calls] = "ok") =>
                  retry.outcome = [kind |-> "returned", exc |-> "none", of |-> calls]
            /\ (calls >= 1 /\ retry.call_outcomes[calls] = "CancelledError") =>
                  retry.outcome = [kind |-> "raised", exc |-> "CancelledError", of |-> calls]
            /\ (retry.outcome.kind = "raised" /\ retry.outcome.exc = "Exception"
                  /\ retry.retry_count >= 1) =>
                  calls = retry.retry_count /\ retry.outcome.of = calls
            /\ (calls >= 1 /\ calls = retry.retry_count
                  /\ retry.call_outcomes[calls] = "Exception") =>
                  retry.outcome = [kind |-> "raised", exc |-> "Exception", of |-> calls]

\* three attempts failed with a retryable exception and the third one's
\* exception was raised
C31_Witness ==
    /\ retry.pc = "done"
    /\ retry.retry_count = 3
    /\ retry.call_outcomes = <<"Exception", "Exception", "Exception">>
    /\ retry.outcome = [kind |-> "raised", exc |-> "Exception", of |-> 3]
    /\ retry.delay = 4

\* C38: a task the validator accepted and that is reported as failed at a
\* step had that step passed to the executor at least once.
C38_FailedStepWasExecuted ==
    (retry.pc = "done" /\ retry.task_result = "execution_error") =>
        Len(retry.call_outcomes) >= 1

(***************************************************************************)
(* The validator and the dispatch, checked under ValidationSpec.           *)
(***************************************************************************)
\* C40: a step whose action the executor dispatches and that carries the
\* action's parameters with well-formed values passes validate_step, and a
\* step that passes validate_step is not answered with "Unknown action".
C40_ValidatedIffDispatched ==
    (validation.pc = "step" /\ validation.validated # "none"
        /\ validation.dispatch # "none") =>
        /\ (/\ validation.action \in DispatchedActions
            /\ PromptParams(validation.action) \subseteq validation.params
            /\ validation.well_formed) => validation.validated = "accepted"
        /\ validation.validated = "accepted" =>
              validation.dispatch # "Unknown action"

(***************************************************************************)
(* The page of the loop, checked under LoopSpec.                           *)
(***************************************************************************)
\* C37: at the start of every iteration of run_dynamic's loop the page it
\* observes and acts on is the TabManager's active page.
C37_LoopObservesActivePage ==
    (loop.pc = "observe" /\ loop.step_count < loop.max_steps) =>
        loop.page = active_page(tabs, active_tab_index)

====
